---- MODULE Spec2Model ----
(***************************************************************************)
(* Model of backend/src/socket/AuthenticatedSocket.ts (ACM-Mentorship):    *)
(* the mentorship-request engine run by authenticated sessions against the *)
(* persistence gateway.  Every gateway call of a handler is an await, so   *)
(* each action below is one resolution of one gateway call together with   *)
(* the synchronous code that follows it up to the next await.              *)
(***************************************************************************)
EXTENDS Integers, Sequences, FiniteSets, TLC

(***************************************************************************)
(* Bounds of the model.                                                    *)
(***************************************************************************)
\* number of mentorshipRequest documents DBCreate may hand out
MaxReqs == 2
\* number of gateway calls that may fail in one behaviour of SpecFault
MaxFaults == 1
\* number of "connect" events the socket of the session under study emits
MaxConnects == 1
\* number of user documents that may carry the session's OAuthSubID
MaxAccounts == 2
\* number of assessment documents DBCreate may hand out
MaxAssessments == 1

Users == {"u1", "u2", "u3"}
\* an identifier no user document is stored under
Ghost == "u9"
UserIds == Users \cup {Ghost}
\* null / undefined identifier
NoId == "null"
ReqIds == 1..MaxReqs
NoReq == 0
Sessions == {"s1", "s2", "s3"}
Tasks == {1}
\* the handlers that can be in flight together when commands overlap
Slots == {1, 2}

VARIABLES
    users,       \* collection "user": id -> document
    reqs,        \* collection "mentorshipRequest": id -> document
    nCreated,    \* number of mentorshipRequest ids DBCreate has handed out
    AllSockets,  \* static AllSockets: user id -> sessions registered under it
    sock,        \* per AuthenticatedSocket: state, inAllSockets, this.user
    task,        \* command handlers in flight, each at its pending await
    hist,        \* the command that returned last, if a send that succeeded
    nFaults,     \* gateway calls that have failed so far
    ses,         \* one AuthenticatedSocket from its construction on: its
                 \* fields, its socket's listeners, what it has emitted
    accounts,    \* ids of the user documents with the session's OAuthSubID
    socketMap,   \* static AllSockets: user id -> entries of this session
    awaits,      \* the pending awaits of the session's async methods
    index,       \* static AllAcceptingMentorIDs
    profile,     \* per session: isMentor, acceptingMentees of this.user
    upd,         \* handleUpdateProfile in flight
    gam,         \* handleGetAllMentors in flight
    sync,        \* SyncAllAcceptingMentorIDs, called when the module loads
    assessments, \* collection "assessment": id -> document
    nAsm,        \* number of assessment ids DBCreate has handed out
    asm          \* handleSubmitAssessment or _getAssessment in flight

engineVars == <<users, reqs, nCreated, AllSockets, sock, task, hist, nFaults>>
sesVars == <<ses, accounts, socketMap, awaits>>
idxVars == <<index, profile, upd, gam, sync>>
asmVars == <<assessments, nAsm, asm>>
vars == <<users, reqs, nCreated, AllSockets, sock, task, hist, nFaults,
          ses, accounts, socketMap, awaits, index, profile, upd, gam, sync,
          assessments, nAsm, asm>>

(***************************************************************************)
(* JavaScript arrays and sets.                                             *)
(***************************************************************************)
\* Array.prototype.indexOf: 0-based position of the first x, or -1
IndexOf(seq, x) ==
    IF \E i \in 1..Len(seq) : seq[i] = x
    THEN (CHOOSE i \in 1..Len(seq) :
            seq[i] = x /\ \A j \in 1..(i - 1) : seq[j] # x) - 1
    ELSE -1

\* Array.prototype.splice(start, deleteCount): the array that is left
Splice(seq, start, deleteCount) ==
    LET len  == Len(seq)
        from == IF start < 0
                THEN (IF len + start < 0 THEN 0 ELSE len + start)
                ELSE (IF start > len THEN len ELSE start)
        cnt  == IF deleteCount < 0 THEN 0
                ELSE IF deleteCount > len - from THEN len - from
                ELSE deleteCount
    IN  SubSeq(seq, 1, from) \o SubSeq(seq, from + cnt + 1, len)

\* Array.prototype.splice(start): deleteCount omitted, all from start on go
SpliceToEnd(seq, start) == Splice(seq, start, Len(seq))

Includes(seq, x) == \E i \in 1..Len(seq) : seq[i] = x

\* new Set(array).values(): the distinct elements in insertion order
RECURSIVE SetValues(_)
SetValues(seq) ==
    IF seq = <<>> THEN <<>>
    ELSE LET init == SetValues(SubSeq(seq, 1, Len(seq) - 1))
             x    == seq[Len(seq)]
         IN  IF Includes(init, x) THEN init ELSE Append(init, x)

(***************************************************************************)
(* Documents of the persistence gateway.                                   *)
(***************************************************************************)
\* what DBGetWithID returns for an id without a document
NoUserDoc ==
    [exists |-> FALSE, isMentor |-> FALSE, acceptingMentees |-> FALSE,
     mentorID |-> NoId, hasMenteeIDs |-> FALSE, menteeIDs |-> <<>>,
     hasRequests |-> FALSE, mentorshipRequests |-> <<>>,
     isMentee |-> FALSE, assessments |-> <<>>]

\* the document handleCreateUser stores: no relationship field is set
NewUserDoc(isMentor, accepting) ==
    [NoUserDoc EXCEPT !.exists = TRUE, !.isMentor = isMentor,
                      !.acceptingMentees = accepting]

NoReqDoc == [exists |-> FALSE, mentorID |-> NoId, menteeID |-> NoId]

DBGetUser(id) == IF id \in DOMAIN users THEN users[id] ELSE NoUserDoc
DBGetReq(id) == IF id \in DOMAIN reqs THEN reqs[id] ELSE NoReqDoc

(***************************************************************************)
(* Sessions and command handlers in flight.                                *)
(***************************************************************************)
\* the user each session resolved to when it entered authed_user
SessionUser == [s \in Sessions |->
                  CASE s = "s1" -> "u1" [] s = "s2" -> "u2" [] OTHER -> "u3"]

\* this.user as the handlers read it: id, mentorID, menteeIDs, assessments
UserCache(id, doc) ==
    [id |-> id, mentorID |-> doc.mentorID,
     hasMenteeIDs |-> doc.hasMenteeIDs, menteeIDs |-> doc.menteeIDs,
     assessments |-> doc.assessments]

Actions == {"send", "accept", "decline", "cancel", "removeMentor", "removeMentee"}

\* a handler frame: the payload, the locals that live across awaits, and
\* what the handler has emitted so far
IdleTask ==
    [pc |-> "idle", sock |-> "s1", cmd |-> "none", hasCb |-> FALSE,
     action |-> "none", mentorID |-> NoId, reqID |-> NoReq, menteeID |-> NoId,
     \* handleMentorshipRequest: mentorshipRequestObj
     obj |-> NoReqDoc,
     \* FindMentorshipRequestBetweenMentorMentee: arguments, the mentor's
     \* list, the ids of iterSet still to visit
     inFind |-> FALSE, fMentor |-> NoId, fMentee |-> NoId,
     fList |-> <<>>, fIter |-> <<>>,
     \* add/removeMentorshipRequestToUser/FromUser: arguments, the list to
     \* write, and where the call returns to
     uReq |-> NoReq, uUser |-> NoId, uList |-> <<>>, ret |-> "none",
     \* removeMentorshipRequest: alertStatus and mentorshipRequestObj
     rStatus |-> "none", rObj |-> NoReqDoc,
     \* add/removeMentorship: arguments and mentorMenteeList
     msMentor |-> NoId, msMentee |-> NoId, msHas |-> FALSE, msList |-> <<>>,
     \* emitted: callback result, "message" events, "data" events
     cb |-> "none", cbReq |-> NoReq, msgs |-> <<>>, sent |-> <<>>,
     \* bookkeeping for the properties: gateway writes done, gateway calls
     \* failed, uncaught error, id created, lists before the command
     wrote |-> FALSE, faulted |-> FALSE, uncaught |-> FALSE,
     newReq |-> NoReq, pre |-> <<>>, preMentees |-> <<>>, self |-> NoId,
     \* the request ids FindMentorshipRequestBetweenMentorMentee fetched,
     \* whether the handler has awaited _updateSelf, whether a list it
     \* wrote had changed in the store since the handler read it
     fetched |-> {}, reread |-> FALSE, stale |-> FALSE]

NoSend == [ok |-> FALSE, mentor |-> NoId, mentee |-> NoId,
           req |-> NoReq, pre |-> <<>>, faulted |-> FALSE]

\* the request lists of a user as a list of ids (a missing field holds none)
Contents(id) == DBGetUser(id).mentorshipRequests

Quiescent == \A t \in Slots : task[t].pc = "idle"

\* what is kept of a finished handler: its payload and what it emitted
Summary(tk) ==
    [IdleTask EXCEPT !.pc = "done", !.sock = tk.sock, !.cmd = tk.cmd,
        !.hasCb = tk.hasCb, !.action = tk.action, !.mentorID = tk.mentorID,
        !.reqID = tk.reqID, !.menteeID = tk.menteeID, !.obj = tk.obj,
        !.cb = tk.cb, !.cbReq = tk.cbReq, !.msgs = tk.msgs, !.sent = tk.sent,
        !.wrote = tk.wrote, !.faulted = tk.faulted, !.uncaught = tk.uncaught,
        !.newReq = tk.newReq, !.pre = tk.pre, !.preMentees = tk.preMentees,
        !.self = tk.self, !.msMentor = tk.msMentor, !.msMentee = tk.msMentee,
        !.fetched = tk.fetched, !.reread = tk.reread, !.stale = tk.stale]

\* the handler returns
Finish(tk) == [tk EXCEPT !.pc = "done"]

\* the handlers' ErrorCallback(msg): sendClientMessage, then callback(false)
ErrorCallback(tk, msg) ==
    Finish([tk EXCEPT !.msgs = Append(@, msg), !.cb = "false"])

\* callback(true)
CallbackTrue(tk) == Finish([tk EXCEPT !.cb = "true"])

\* an error thrown by a gateway call reaches the nearest catch: inside
\* FindMentorshipRequestBetweenMentorMentee that is the handler's outer
\* catch (a message, no callback); getFindMentorshipRequestBetweenUsers'
\* catch calls SendErrorMessage, a plain function whose `this` is unbound,
\* so the handler's promise rejects.  Everywhere else it is the catch
\* around the call, which calls ErrorCallback.
Throw(tk) ==
    IF tk.inFind
    THEN IF tk.cmd = "mentorshipRequest"
         THEN Finish([tk EXCEPT !.msgs = Append(@, "caught")])
         ELSE Finish([tk EXCEPT !.uncaught = TRUE])
    ELSE ErrorCallback(tk, "gateway")

\* SendClientsDataWithUserID([mentorID, menteeID], "mentorshipRequest", ..)
EventsFor(userID, req, status) ==
    IF userID \in DOMAIN AllSockets
    THEN [i \in 1..Len(AllSockets[userID]) |->
            [to |-> AllSockets[userID][i], req |-> req, status |-> status]]
    ELSE <<>>

SendClientsDataWithUserID(tk, mentorID, menteeID, req, status) ==
    [tk EXCEPT !.sent = @ \o EventsFor(mentorID, req, status)
                          \o EventsFor(menteeID, req, status)]

\* removeSelfFromSocketMap
RemoveSelfFromSocketMap(s) ==
    LET id   == sock[s].user.id
        list == AllSockets[id]
    IN  IF ~sock[s].inAllSockets THEN AllSockets
        ELSE IF Len(list) = 0 THEN AllSockets
        ELSE IF Len(list) = 1 THEN [AllSockets EXCEPT ![id] = <<>>]
        ELSE [AllSockets EXCEPT ![id] = Splice(list, IndexOf(list, s), 1)]

\* the frame after a step; of a finished handler (pc = "done") only the
\* payload and what it emitted are kept, until the handler's promise settles
Commit(t, nt) ==
    /\ task' = [task EXCEPT ![t] = IF nt.pc = "done" THEN Summary(nt) ELSE nt]
    /\ UNCHANGED hist

\* a gateway call fails (ok = FALSE) or succeeds
Gateway(ok) ==
    /\ nFaults' = IF ok THEN nFaults ELSE nFaults + 1
    /\ UNCHANGED <<sesVars, idxVars, asmVars>>

Failed(tk, ok) == IF ok THEN tk ELSE [tk EXCEPT !.faulted = TRUE]

(***************************************************************************)
(* The session state machine of one AuthenticatedSocket (lines 90-249,     *)
(* 1896-1980), constructed without the testing options.  The documents     *)
(* with its OAuthSubID are `accounts`; the session's entries in AllSockets *)
(* are `socketMap`.                                                        *)
(***************************************************************************)
CreateUserEvent == "createUser"
\* the events _enter_authed_user_state binds, lines 211-243
AuthedEvents ==
    {"updateProfile", "getAllMentors", "submitAssessment",
     "mentorshipRequest", "getUser", "getAssessment",
     "getAvailableAssessmentQuestions", "getMentorshipRequestBetweenUsers"}
StateEvents == AuthedEvents \cup {CreateUserEvent}

AccountIds == 1..MaxAccounts
\* this.user.id of a session whose this.user has no id yet
NoAccount == 0

NoAwaits ==
    [lookup |-> 0, getUserData |-> [a \in AccountIds |-> 0], questions |-> 0,
     validUsername |-> 0, dbCreate |-> 0]

\* the events that have a listener of currentSocketStateEvents' kind
Listening(S) == {l[1] : l \in S.listeners}

\* the number of listeners the socket calls for an event
ListenerCount(S, event) == Cardinality({l \in S.listeners : l[1] = event})

\* _setState, lines 246-249: this.state = state; socket.emit("state", state)
SetState(S, st) ==
    [S EXCEPT !.state = st,
              !.announced = [from |-> S.state, to |-> st,
                             installed |-> Listening(S)],
              !.everUser = @ \/ st = "authed_user",
              !.everError = @ \/ st = "connect_error"]

\* _addStateSocketEvent, lines 1896-1899; func is the binding numbered gen
AddStateSocketEvent(S, event, gen) ==
    [S EXCEPT !.currentSocketStateEvents[event] = gen,
              !.listeners = @ \cup {<<event, gen>>}]

\* _cleanupSocketEvents with an empty body
MutCleanupSocketEvents(S) == S

\* _cleanupSocketEvents, lines 1903-1907: removeListener for every key of
\* currentSocketStateEvents; the map itself keeps its keys
CleanupSocketEvents(S) ==
    [S EXCEPT !.listeners =
        @ \ {<<e, S.currentSocketStateEvents[e]>> : e \in StateEvents}]

\* addSelfToSocketMap, lines 1936-1958
CanAddSelf(S) == ~S.inAllSockets /\ S.userID # NoAccount
AddSelfToSocketMap(S) ==
    IF CanAddSelf(S) THEN [S EXCEPT !.inAllSockets = TRUE] ELSE S
SocketMapAdd(S, map) ==
    IF CanAddSelf(S) THEN [map EXCEPT ![S.userID] = @ + 1] ELSE map

\* removeSelfFromSocketMap, lines 1960-1980
CanRemoveSelf(S) == S.userID # NoAccount /\ S.inAllSockets
SesRemoveSelf(S) ==
    IF CanRemoveSelf(S) THEN [S EXCEPT !.inAllSockets = FALSE] ELSE S
SocketMapRemove(S, map) ==
    IF CanRemoveSelf(S) /\ map[S.userID] > 0
    THEN [map EXCEPT ![S.userID] = @ - 1] ELSE map

\* the socket closes (the client leaves, or socket.disconnect() on a socket
\* that is connected): the "disconnect" listener of line 112 runs
Disconnect(S) ==
    IF S.connected THEN [SesRemoveSelf(S) EXCEPT !.connected = FALSE] ELSE S
SocketMapDisconnect(S, map) ==
    IF S.connected THEN SocketMapRemove(S, map) ELSE map

\* _enter_authed_nouser_state, lines 187-192
EnterAuthedNouserState(S) ==
    LET gen == S.nBinds + 1
    IN  AddStateSocketEvent(
            [SetState(CleanupSocketEvents(S), "authed_nouser")
                EXCEPT !.nBinds = gen],
            CreateUserEvent, gen)

\* new AuthenticatedSocket(socket, setupData), lines 90-106: the
\* constructor has run _enter_connect_state up to its await
NewSession ==
    [state |-> "connecting", connected |-> TRUE, userID |-> NoAccount,
     inAllSockets |-> FALSE, listeners |-> {},
     currentSocketStateEvents |-> [e \in StateEvents |-> 0],
     nBinds |-> 0, nConnects |-> 0,
     \* bookkeeping for the properties: the last "state" event and the
     \* events that had a listener when it was emitted, the last command
     \* that reached a listener, states the session has been in, entries
     \* into authed_user, "initialData" events, whether the session was
     \* listed under this.user.id after its last entry, unhandled rejections
     announced |-> [from |-> "none", to |-> "connecting", installed |-> {}],
     ran |-> [event |-> "none", state |-> "none", times |-> 0],
     everUser |-> FALSE, everError |-> FALSE,
     nEntered |-> 0, nInitial |-> 0, entryListed |-> TRUE,
     fault |-> FALSE]

InitSession(accts) ==
    /\ ses = NewSession
    /\ accounts = accts
    /\ socketMap = [a \in AccountIds |-> 0]
    /\ awaits = [NoAwaits EXCEPT !.lookup = 1]

(***************************************************************************)
(* The state after the server has authenticated one session per user.      *)
(* u1 and u2 are mentors who accept mentees; u3 is either no mentor or a    *)
(* mentor who accepts none.                                                *)
(***************************************************************************)
InitEngine ==
    /\ \E f \in {<<FALSE, TRUE>>, <<TRUE, FALSE>>} :
          users = [u \in Users |->
                     IF u = "u3" THEN NewUserDoc(f[1], f[2])
                     ELSE NewUserDoc(TRUE, TRUE)]
    /\ reqs = [r \in ReqIds |-> NoReqDoc]
    /\ nCreated = 0
    /\ AllSockets = [u \in Users |->
                       IF u = "u1" THEN <<"s1">>
                       ELSE IF u = "u2" THEN <<"s2">> ELSE <<"s3">>]
    /\ sock = [s \in Sessions |->
                 [state |-> "authed_user", connected |-> TRUE,
                  inAllSockets |-> TRUE,
                  user |-> UserCache(SessionUser[s], NewUserDoc(TRUE, TRUE))]]
    /\ task = [t \in Slots |-> IdleTask]
    /\ hist = NoSend
    /\ nFaults = 0

(***************************************************************************)
(* The Mentor Availability Index: the static set AllAcceptingMentorIDs,    *)
(* written by handleUpdateProfile, handleGetAllMentors and the rebuild     *)
(* SyncAllAcceptingMentorIDs that the module starts when it is loaded.     *)
(***************************************************************************)
\* a payload's isMentor / acceptingMentees: absent, a boolean, or a truthy
\* value that is no boolean
FlagValues == {"absent", "true", "false", "bad"}

\* isMentor and acceptingMentees of a user document
Flags(doc) == [isMentor |-> doc.isMentor,
               acceptingMentees |-> doc.acceptingMentees]

\* DBSetWithID(.., newUserObj, merge = true) on one of the two fields
MergeFlag(old, v) == IF v = "absent" THEN old ELSE v = "true"

IdleUpdate ==
    [pc |-> "idle", sock |-> "s1", hasCb |-> FALSE,
     isMentor |-> "absent", acceptingMentees |-> "absent",
     \* emitted: callback result and "message" events
     cb |-> "none", msgs |-> <<>>,
     \* bookkeeping for the properties: whether the user was in the index
     \* before the command and when the handler returned
     wasIn |-> FALSE, inIndex |-> FALSE]

IdleGetAll ==
    [pc |-> "idle", sock |-> "s1", hasCb |-> FALSE,
     \* AllMentorIDs, the fetches still pending, the fetches that rejected
     \* or found no document
     ids |-> {}, pending |-> {}, bad |-> {},
     \* emitted: callback result (the ids of allMentors) and messages
     cb |-> "none", mentors |-> {}, msgs |-> <<>>,
     \* bookkeeping for the properties: the ids handleUpdateProfile added
     \* while the fetches were awaited, and those of them the handler took
     \* out of the index although their documents say accepting mentor
     added |-> {}, lost |-> {}]

\* the rebuild: its query is with the store ("query"), evaluated and on its
\* way back ("response"), or applied ("done")
NewSync == [pc |-> "query", result |-> {}, added |-> {}, lost |-> {}]

\* `static AllAcceptingMentorIDs = new Set()`, and the call of line 2046
InitIndex ==
    /\ index = {}
    /\ profile = [s \in Sessions |-> Flags(NewUserDoc(TRUE, TRUE))]
    /\ upd = IdleUpdate
    /\ gam = IdleGetAll
    /\ sync = NewSync

(***************************************************************************)
(* Assessments: the collection "assessment", written by                    *)
(* handleSubmitAssessment and read by _getAssessment / GetAssessmentData.  *)
(***************************************************************************)
AsmIds == 1..MaxAssessments
\* the payload carries no id
NoAsm == 0
\* answered questions that isValidAnsweredAssessmentQuestions accepts
Questions == {"q1", "q2"}
\* isValidAssessmentAction
AssessmentActions == {"create", "edit", "delete", "publish", "unpublish"}

NoAsmDoc == [exists |-> FALSE, userID |-> NoId, published |-> FALSE,
             questions |-> "none"]

DBGetAsm(id) == IF id \in DOMAIN assessments THEN assessments[id] ELSE NoAsmDoc

IdleAsm ==
    [pc |-> "idle", sock |-> "s1", cmd |-> "none", hasCb |-> FALSE,
     action |-> "none", id |-> NoAsm, questions |-> "none",
     \* assessmentRes / assessmentData, createdAssessmentID
     res |-> NoAsmDoc, created |-> NoAsm,
     \* emitted: the callback's arguments in order, "message" events
     cbs |-> <<>>, msgs |-> <<>>,
     \* bookkeeping for the properties: the caller, the document the
     \* command found, whether a gateway call of the command failed
     self |-> NoId, before |-> NoAsmDoc, faulted |-> FALSE]

InitAssessments ==
    /\ assessments = [a \in AsmIds |-> NoAsmDoc]
    /\ nAsm = 0
    /\ asm = IdleAsm

\* the engine's commands are studied with the further session just built
Init == InitEngine /\ InitSession(<<>>) /\ InitIndex /\ InitAssessments

(***************************************************************************)
(* A client emits a command on a session whose handlers are installed.     *)
(* Commands are handled one at a time here: the next one arrives when the  *)
(* handler of the previous one has returned.                               *)
(***************************************************************************)
\* what is remembered of a finished command: a send that reported success
SendInfo(last) ==
    IF last.pc = "done" /\ last.action = "send" /\ last.cb = "true"
    THEN [ok |-> TRUE, mentor |-> last.mentorID, mentee |-> last.self,
          req |-> last.newReq, pre |-> last.pre, faulted |-> last.faulted]
    ELSE NoSend

Begin(t, tk) ==
    /\ task' = [task EXCEPT ![t] = tk]
    /\ UNCHANGED <<users, reqs, nCreated, AllSockets, sock, hist, nFaults>>
    /\ UNCHANGED <<sesVars, idxVars, asmVars>>

\* the promise of a finished handler settles: its slot is free again
Return(t) ==
    /\ task[t].pc = "done"
    /\ task' = [task EXCEPT ![t] = IdleTask]
    /\ hist' = SendInfo(task[t])
    /\ UNCHANGED <<users, reqs, nCreated, AllSockets, sock, nFaults>>
    /\ UNCHANGED <<sesVars, idxVars, asmVars>>

Installed(s) == sock[s].connected /\ sock[s].state = "authed_user"

\* handleMentorshipRequest(dataRaw, callback) is entered on session s
StartMentorshipRequest(t, s, hasCb, action, mentorID, reqID, menteeID) ==
    /\ Installed(s)
    /\ Begin(t, [IdleTask EXCEPT
            !.pc = "updateSelf", !.sock = s, !.cmd = "mentorshipRequest",
            !.hasCb = hasCb, !.action = action, !.mentorID = mentorID,
            !.reqID = reqID, !.menteeID = menteeID,
            !.self = sock[s].user.id,
            !.pre = IF action = "send"
                    THEN <<Contents(mentorID), Contents(sock[s].user.id)>>
                    ELSE <<>>,
            !.preMentees = IF action = "removeMentee"
                           THEN DBGetUser(sock[s].user.id).menteeIDs
                           ELSE <<>>])

\* socket event "mentorshipRequest", the previous command having returned
EmitMentorshipRequest(t, s, hasCb, action, mentorID, reqID, menteeID) ==
    /\ Quiescent
    /\ action = "send" => nCreated < MaxReqs
    /\ StartMentorshipRequest(t, s, hasCb, action, mentorID, reqID, menteeID)

\* FindMentorshipRequestBetweenMentorMentee(mentorID, menteeID) is entered
CallFind(tk, mentorID, menteeID) ==
    [tk EXCEPT !.pc = "findGetMentor", !.inFind = TRUE,
               !.fMentor = mentorID, !.fMentee = menteeID]

\* socket event "getMentorshipRequestBetweenUsers" ->
\* getFindMentorshipRequestBetweenUsers(mentorID, menteeID, callback)
\* The handler reads no field of its session: the frame does not keep it.
\* Without a callback (lines 1402-1405) it calls SendErrorMessage, a plain
\* function whose `this` is unbound: the call throws before a message is
\* sent, the catch of line 1423 calls it again, and the promise rejects.
EmitGetMentorshipRequestBetweenUsers(t, hasCb, mentorID, menteeID) ==
    /\ Quiescent
    /\ \E s \in Sessions : Installed(s)
    /\ LET tk == [IdleTask EXCEPT
                    !.cmd = "getMentorshipRequestBetweenUsers",
                    !.hasCb = hasCb, !.mentorID = mentorID,
                    !.menteeID = menteeID,
                    !.pre = <<Contents(mentorID), Contents(menteeID)>>]
       IN  Begin(t, IF hasCb THEN CallFind(tk, mentorID, menteeID)
                    ELSE Summary(Finish([tk EXCEPT !.uncaught = TRUE])))

(***************************************************************************)
(* handleMentorshipRequest up to its first gateway call of the action.     *)
(***************************************************************************)
\* removeMentorship(mentorID, menteeID) is entered
CallRemoveMentorship(tk, mentorID, menteeID) ==
    [tk EXCEPT !.pc = "rmsGetMentor", !.msMentor = mentorID,
               !.msMentee = menteeID]

\* lines 1026-1372 after `await this._updateSelf()`, with this.user = me
AfterUpdateSelf(tk, me) ==
    IF ~tk.hasCb
    THEN Finish([tk EXCEPT !.msgs = Append(@, "No callback was provided")])
    ELSE CASE tk.action = "send" ->
                IF tk.mentorID = me.id
                THEN ErrorCallback(tk, "You cannot send yourself a mentorship request.")
                ELSE [tk EXCEPT !.pc = "sendGetTarget"]
           [] tk.action \in {"accept", "decline", "cancel"} ->
                [tk EXCEPT !.pc = "getReq"]
           [] tk.action = "removeMentor" ->
                IF me.mentorID = NoId
                THEN ErrorCallback(tk, "You do not have a mentor")
                ELSE CallRemoveMentorship(tk, me.mentorID, me.id)
           [] OTHER ->
                IF ~me.hasMenteeIDs
                THEN ErrorCallback(tk, "You do not have mentees")
                ELSE IF ~Includes(me.menteeIDs, tk.menteeID)
                THEN ErrorCallback(tk, "That is not one of your mentees.")
                ELSE CallRemoveMentorship(tk, me.id, tk.menteeID)

\* _updateSelf: DBGetWithID("user", this.user.id) resolves.  On a failure
\* or a missing document the session sends a message and disconnects, and
\* _updateSelf returns: the handler goes on with the stale this.user.
UpdateSelf(t, ok) ==
    /\ task[t].pc = "updateSelf"
    /\ LET tk   == [task[t] EXCEPT !.reread = TRUE]
           s    == tk.sock
           self == DBGetUser(sock[s].user.id)
           good == ok /\ self.exists
           me   == IF good THEN UserCache(sock[s].user.id, self)
                   ELSE sock[s].user
           tk2  == IF good THEN tk
                   ELSE [Failed(tk, ok) EXCEPT !.msgs =
                           Append(@, IF ok THEN "Your account does not exist"
                                     ELSE "There was a problem syncing your data.")]
       IN  /\ sock' = [sock EXCEPT ![s] =
                         IF good THEN [@ EXCEPT !.user = me]
                         ELSE [@ EXCEPT !.connected = FALSE,
                                        !.inAllSockets = FALSE]]
           /\ AllSockets' = IF good THEN AllSockets
                            ELSE RemoveSelfFromSocketMap(s)
           /\ Commit(t, AfterUpdateSelf(tk2, me))
    /\ Gateway(ok)
    /\ UNCHANGED <<users, reqs, nCreated>>

\* TargetError without the acceptingMentees test of line 1086
MutTargetError(userRes) ==
    IF ~userRes.exists THEN "That user does not exist"
    ELSE IF ~userRes.isMentor THEN "That user is not a mentor "
    ELSE ""

\* send, lines 1080-1089: what is wrong with the target, "" if nothing is
TargetError(userRes) ==
    IF ~userRes.exists THEN "That user does not exist"
    ELSE IF ~userRes.isMentor THEN "That user is not a mentor "
    ELSE IF ~userRes.acceptingMentees
    THEN "That user is not currently accepting mentees."
    ELSE ""

\* send: DBGetWithID("user", mentorID) resolves (lines 1078-1110)
SendGetTarget(t, ok) ==
    /\ task[t].pc = "sendGetTarget"
    /\ LET tk      == Failed(task[t], ok)
           userRes == DBGetUser(tk.mentorID)
       IN  Commit(t,
             IF ~ok THEN ErrorCallback(tk, "gateway")
             ELSE IF TargetError(userRes) # ""
             THEN ErrorCallback(tk, TargetError(userRes))
             ELSE CallFind(tk, tk.mentorID, sock[tk.sock].user.id))
    /\ Gateway(ok)
    /\ UNCHANGED <<users, reqs, nCreated, AllSockets, sock>>

(***************************************************************************)
(* DBSetWithID("user", id, {field: value}, merge = true)                   *)
(***************************************************************************)
SetMentorshipRequests(id, list) ==
    IF id \in DOMAIN users
    THEN [users EXCEPT ![id] = [@ EXCEPT !.hasRequests = TRUE,
                                         !.mentorshipRequests = list]]
    ELSE users

SetMenteeIDs(id, list) ==
    IF id \in DOMAIN users
    THEN [users EXCEPT ![id] = [@ EXCEPT !.hasMenteeIDs = TRUE,
                                         !.menteeIDs = list]]
    ELSE users

SetMentorID(id, mentorID) ==
    IF id \in DOMAIN users
    THEN [users EXCEPT ![id] = [@ EXCEPT !.mentorID = mentorID]]
    ELSE users

(***************************************************************************)
(* Where the static helpers return to.  A helper's last await and the      *)
(* caller's code up to its own next await run in one step.                 *)
(***************************************************************************)
\* FindMentorshipRequestBetweenMentorMentee returns (found: the request id)
FindReturn(tk0, found, req) ==
    LET tk == [tk0 EXCEPT !.inFind = FALSE, !.fMentor = NoId, !.fMentee = NoId,
                          !.fList = <<>>, !.fIter = <<>>]
    IN  IF tk.cmd = "mentorshipRequest"
        THEN \* lines 1107-1118 of send
             IF found
             THEN ErrorCallback(tk, "You have already sent a request")
             ELSE [tk EXCEPT !.pc = "amrCreate"]
        ELSE \* line 1422: callback(res)
             Finish([tk EXCEPT !.cb = IF found THEN "found" ELSE "undefined",
                               !.cbReq = req])

\* the for loop of lines 1729-1765 reaches its next DBGetWithID, or ends
FindLoop(tk) ==
    IF tk.fIter = <<>> THEN FindReturn(tk, FALSE, NoReq)
    ELSE [tk EXCEPT !.pc = "findGetReq"]

\* addMentorship(mentorID, menteeID) is entered
CallAddMentorship(tk, mentorID, menteeID) ==
    [tk EXCEPT !.pc = "amsGetMentor", !.msMentor = mentorID,
               !.msMentee = menteeID]

\* removeMentorshipRequest returns to accept, decline or cancel
RemoveRequestReturn(tk0) ==
    LET tk == [tk0 EXCEPT !.rStatus = "none", !.rObj = NoReqDoc]
    IN  IF tk.action = "accept"
        THEN CallAddMentorship(tk, tk.obj.mentorID, tk.obj.menteeID)
        ELSE CallbackTrue(tk)

\* removeMentorshipRequestFromUser(mentorshipRequestID, userID) is entered
CallRemoveFromUser(tk, req, userID, ret) ==
    [tk EXCEPT !.pc = "rmuGet", !.uReq = req, !.uUser = userID,
               !.uList = <<>>, !.ret = ret]

\* removeMentorshipRequestFromUser returns
RemoveFromUserReturn(tk0) ==
    LET tk == [tk0 EXCEPT !.uReq = NoReq, !.uUser = NoId, !.uList = <<>>,
                          !.ret = "none"]
        req == tk0.uReq
    IN  CASE tk0.ret = "find1" ->   \* line 1742
                CallRemoveFromUser(tk, req, tk.fMentor, "find2")
          [] tk0.ret = "find2" ->   \* line 1746: continue
                FindLoop([tk EXCEPT !.fIter = Tail(@)])
          [] tk0.ret = "rmr1" ->    \* line 1628
                CallRemoveFromUser(tk, req, tk.rObj.menteeID, "rmr2")
          [] OTHER ->               \* lines 1633-1641
                RemoveRequestReturn(
                    SendClientsDataWithUserID(tk, tk.rObj.mentorID,
                        tk.rObj.menteeID, req, tk.rStatus))

\* addMentorshipRequestToUser(mentorshipRequestID, userID) is entered
CallAddToUser(tk, req, userID, ret) ==
    [tk EXCEPT !.pc = "amuGet", !.uReq = req, !.uUser = userID,
               !.uList = <<>>, !.ret = ret]

\* addMentorshipRequestToUser returns into addMentorshipRequest
AddToUserReturn(tk0) ==
    LET tk == [tk0 EXCEPT !.uReq = NoReq, !.uUser = NoId, !.uList = <<>>,
                          !.ret = "none"]
        req == tk0.uReq
    IN  IF tk0.ret = "amr1"
        THEN \* line 1550
             CallAddToUser(tk, req, tk.self, "amr2")
        ELSE \* lines 1555-1562, then line 1373: callback(true)
             CallbackTrue(
                 SendClientsDataWithUserID(tk, tk.mentorID, tk.self, req, "new"))

(***************************************************************************)
(* FindMentorshipRequestBetweenMentorMentee (lines 1690-1767)              *)
(***************************************************************************)
\* line 1698: DBGetWithID("user", mentorID) resolves
FindGetMentor(t, ok) ==
    /\ task[t].pc = "findGetMentor"
    /\ LET tk         == Failed(task[t], ok)
           mentorData == DBGetUser(tk.fMentor)
       IN  Commit(t,
             IF ~ok THEN Throw(tk)
             ELSE IF ~mentorData.exists \/ ~mentorData.hasRequests
             THEN FindReturn(tk, FALSE, NoReq)
             ELSE [tk EXCEPT !.pc = "findGetMentee",
                             !.fList = mentorData.mentorshipRequests])
    /\ Gateway(ok)
    /\ UNCHANGED <<users, reqs, nCreated, AllSockets, sock>>

\* IterSet with a loop that visits nothing
MutIterSet(mentorList, menteeList) == <<>>

\* lines 1724-1730: the ids the loop fetches, in the order it visits them
IterSet(mentorList, menteeList) ==
    LET set1    == SetValues(mentorList)
        set2    == SetValues(menteeList)
        iterSet == IF Len(set1) < Len(set2) THEN set1 ELSE set2
    IN  SelectSeq(iterSet, LAMBDA id : Includes(set2, id))

\* line 1711: DBGetWithID("user", menteeID) resolves
FindGetMentee(t, ok) ==
    /\ task[t].pc = "findGetMentee"
    /\ LET tk         == Failed(task[t], ok)
           menteeData == DBGetUser(tk.fMentee)
       IN  Commit(t,
             IF ~ok THEN Throw(tk)
             ELSE IF ~menteeData.exists \/ ~menteeData.hasRequests
             THEN FindReturn(tk, FALSE, NoReq)
             ELSE FindLoop([tk EXCEPT
                     !.fIter = IterSet(tk.fList, menteeData.mentorshipRequests),
                     !.fList = <<>>]))
    /\ Gateway(ok)
    /\ UNCHANGED <<users, reqs, nCreated, AllSockets, sock>>

\* line 1731: DBGetWithID("mentorshipRequest", mentorshipRequestID) resolves
FindGetRequest(t, ok) ==
    /\ task[t].pc = "findGetReq"
    /\ LET tk0 == Failed(task[t], ok)
           id  == Head(tk0.fIter)
           obj == DBGetReq(id)
           tk  == [tk0 EXCEPT !.fetched = @ \cup {id}]
       IN  Commit(t,
             IF ~ok THEN Throw(tk)
             ELSE IF ~obj.exists
             THEN CallRemoveFromUser(tk, id, tk.fMentee, "find1")
             ELSE IF obj.mentorID = tk.fMentor /\ obj.menteeID = tk.fMentee
             THEN FindReturn(tk, TRUE, id)
             ELSE FindLoop([tk EXCEPT !.fIter = Tail(@)]))
    /\ Gateway(ok)
    /\ UNCHANGED <<users, reqs, nCreated, AllSockets, sock>>

(***************************************************************************)
(* removeMentorshipRequestFromUser (lines 1644-1678)                       *)
(***************************************************************************)
\* lines 1667-1670: mentorshipRequests.splice(indexOf(mentorshipRequestID))
RemoveRequestID(list, req) == SpliceToEnd(list, IndexOf(list, req))

\* line 1652: DBGetWithID("user", userID) resolves
RemoveFromUserGet(t, ok) ==
    /\ task[t].pc = "rmuGet"
    /\ LET tk       == Failed(task[t], ok)
           userData == DBGetUser(tk.uUser)
       IN  Commit(t,
             IF ~ok THEN Throw(tk)
             ELSE IF ~userData.exists \/ ~userData.hasRequests
             THEN RemoveFromUserReturn(tk)
             ELSE [tk EXCEPT !.pc = "rmuSet",
                     !.uList = RemoveRequestID(userData.mentorshipRequests,
                                               tk.uReq)])
    /\ Gateway(ok)
    /\ UNCHANGED <<users, reqs, nCreated, AllSockets, sock>>

\* line 1671: DBSetWithID resolves; a failure is logged and swallowed
RemoveFromUserSet(t, ok) ==
    /\ task[t].pc = "rmuSet"
    /\ LET tk == Failed(task[t], ok)
       IN  /\ users' = IF ok THEN SetMentorshipRequests(tk.uUser, tk.uList)
                       ELSE users
           /\ Commit(t, RemoveFromUserReturn(
                           IF ok THEN [tk EXCEPT !.wrote = TRUE] ELSE tk))
    /\ Gateway(ok)
    /\ UNCHANGED <<reqs, nCreated, AllSockets, sock>>

(***************************************************************************)
(* addMentorshipRequest, addMentorshipRequestToUser (lines 1526-1595)      *)
(***************************************************************************)
\* line 1537: DBCreate("mentorshipRequest", {mentorID, menteeID}) resolves
AddRequestCreate(t, ok) ==
    /\ task[t].pc = "amrCreate"
    /\ nCreated < MaxReqs
    /\ LET tk == Failed(task[t], ok)
           id == nCreated + 1
       IN  IF ok
           THEN /\ reqs' = [reqs EXCEPT ![id] =
                              [exists |-> TRUE, mentorID |-> tk.mentorID,
                               menteeID |-> tk.self]]
                /\ nCreated' = id
                /\ Commit(t, CallAddToUser(
                       [tk EXCEPT !.newReq = id, !.wrote = TRUE],
                       id, tk.mentorID, "amr1"))
           ELSE /\ UNCHANGED <<reqs, nCreated>>
                /\ Commit(t, ErrorCallback(tk, "gateway"))
    /\ Gateway(ok)
    /\ UNCHANGED <<users, AllSockets, sock>>

\* line 1573: DBGetWithID("user", userID) resolves
AddToUserGet(t, ok) ==
    /\ task[t].pc = "amuGet"
    /\ LET tk       == Failed(task[t], ok)
           userData == DBGetUser(tk.uUser)
       IN  Commit(t,
             IF ~ok THEN ErrorCallback(tk, "gateway")
             ELSE IF ~userData.exists THEN AddToUserReturn(tk)
             ELSE [tk EXCEPT !.pc = "amuSet",
                     !.uList = Append(IF userData.hasRequests
                                      THEN userData.mentorshipRequests
                                      ELSE <<>>, tk.uReq)])
    /\ Gateway(ok)
    /\ UNCHANGED <<users, reqs, nCreated, AllSockets, sock>>

\* line 1588: DBSetWithID resolves; a failure is logged and swallowed
AddToUserSet(t, ok) ==
    /\ task[t].pc = "amuSet"
    /\ LET tk == Failed(task[t], ok)
       IN  /\ users' = IF ok THEN SetMentorshipRequests(tk.uUser, tk.uList)
                       ELSE users
           /\ Commit(t, AddToUserReturn(
                IF ok
                THEN [tk EXCEPT !.wrote = TRUE,
                        !.stale = @ \/ tk.uList #
                            Append(Contents(tk.uUser), tk.uReq)]
                ELSE tk))
    /\ Gateway(ok)
    /\ UNCHANGED <<reqs, nCreated, AllSockets, sock>>

(***************************************************************************)
(* accept, decline, cancel (lines 1129-1316) and removeMentorshipRequest   *)
(* (lines 1597-1642).  Every request document DBCreate stores has both     *)
(* mentorID and menteeID, so the malformed-request branches never run.     *)
(***************************************************************************)

\* the alertStatus accept, decline and cancel pass (lines 1174, 1240, 1304)
AlertStatus(action) ==
    CASE action = "accept" -> "accepted"
      [] action = "decline" -> "declined"
      [] OTHER -> "cancelled"

\* Permitted without the comparisons of lines 1166, 1232 and 1296
MutPermitted(action, obj, userID) == TRUE

\* the caller may act on the request: its mentor accepts or declines
\* (lines 1166, 1232), its mentee cancels (line 1296)
Permitted(action, obj, userID) ==
    IF action = "cancel" THEN obj.menteeID = userID
    ELSE obj.mentorID = userID

\* lines 1133, 1193, 1257: DBGetWithID("mentorshipRequest", id) resolves
GetRequest(t, ok) ==
    /\ task[t].pc = "getReq"
    /\ LET tk  == Failed(task[t], ok)
           obj == DBGetReq(tk.reqID)
       IN  Commit(t,
             IF ~ok THEN ErrorCallback(tk, "gateway")
             ELSE IF ~obj.exists
             THEN ErrorCallback(tk, "Action failed, that mentorship request does not exist.")
             ELSE IF ~Permitted(tk.action, obj, sock[tk.sock].user.id)
             THEN ErrorCallback([tk EXCEPT !.obj = obj],
                                "You do not have permission")
             ELSE [tk EXCEPT !.pc = "rmrGet", !.obj = obj,
                             !.rStatus = AlertStatus(tk.action)])
    /\ Gateway(ok)
    /\ UNCHANGED <<users, reqs, nCreated, AllSockets, sock>>

\* line 1605: DBGetWithID("mentorshipRequest", id) resolves
RemoveRequestGet(t, ok) ==
    /\ task[t].pc = "rmrGet"
    /\ LET tk  == Failed(task[t], ok)
           obj == DBGetReq(tk.reqID)
       IN  Commit(t,
             IF ~ok THEN ErrorCallback(tk, "gateway")
             ELSE IF ~obj.exists THEN RemoveRequestReturn(tk)
             ELSE [tk EXCEPT !.pc = "rmrDelete", !.rObj = obj])
    /\ Gateway(ok)
    /\ UNCHANGED <<users, reqs, nCreated, AllSockets, sock>>

\* line 1613: DBDeleteWithID("mentorshipRequest", id) resolves
RemoveRequestDelete(t, ok) ==
    /\ task[t].pc = "rmrDelete"
    /\ LET tk == Failed(task[t], ok)
       IN  IF ok
           THEN /\ reqs' = [reqs EXCEPT ![tk.reqID] = NoReqDoc]
                /\ Commit(t, CallRemoveFromUser([tk EXCEPT !.wrote = TRUE],
                                 tk.reqID, tk.rObj.mentorID, "rmr1"))
           ELSE /\ UNCHANGED reqs
                /\ Commit(t, ErrorCallback(tk, "gateway"))
    /\ Gateway(ok)
    /\ UNCHANGED <<users, nCreated, AllSockets, sock>>

(***************************************************************************)
(* addMentorship (lines 1466-1489)                                         *)
(***************************************************************************)
\* AddMentee without the push of line 1483
MutAddMentee(has, list, menteeID) == IF has THEN list ELSE <<>>

\* lines 1479-1483: mentorMenteeList.push(menteeID)
AddMentee(has, list, menteeID) == Append(IF has THEN list ELSE <<>>, menteeID)

\* line 1469: DBGetWithID("user", mentorID) resolves
AddMentorshipGetMentor(t, ok) ==
    /\ task[t].pc = "amsGetMentor"
    /\ LET tk        == Failed(task[t], ok)
           mentorObj == DBGetUser(tk.msMentor)
       IN  Commit(t,
             IF ~ok THEN ErrorCallback(tk, "gateway")
             ELSE IF ~mentorObj.exists
             THEN ErrorCallback(tk, "Mentor does not exist")
             ELSE [tk EXCEPT !.pc = "amsGetMentee",
                     !.msList = AddMentee(mentorObj.hasMenteeIDs,
                                          mentorObj.menteeIDs, tk.msMentee)])
    /\ Gateway(ok)
    /\ UNCHANGED <<users, reqs, nCreated, AllSockets, sock>>

\* line 1473: DBGetWithID("user", menteeID) resolves
AddMentorshipGetMentee(t, ok) ==
    /\ task[t].pc = "amsGetMentee"
    /\ LET tk == Failed(task[t], ok)
       IN  Commit(t,
             IF ~ok THEN ErrorCallback(tk, "gateway")
             ELSE IF ~DBGetUser(tk.msMentee).exists
             THEN ErrorCallback(tk, "Mentee does not exist")
             ELSE [tk EXCEPT !.pc = "amsSetMentee"])
    /\ Gateway(ok)
    /\ UNCHANGED <<users, reqs, nCreated, AllSockets, sock>>

\* line 1486: DBSetWithID("user", menteeID, {mentorID}) resolves
AddMentorshipSetMentee(t, ok) ==
    /\ task[t].pc = "amsSetMentee"
    /\ LET tk == Failed(task[t], ok)
       IN  IF ok
           THEN /\ users' = SetMentorID(tk.msMentee, tk.msMentor)
                /\ Commit(t, [tk EXCEPT !.pc = "amsSetMentor", !.wrote = TRUE])
           ELSE /\ UNCHANGED users
                /\ Commit(t, ErrorCallback(tk, "gateway"))
    /\ Gateway(ok)
    /\ UNCHANGED <<reqs, nCreated, AllSockets, sock>>

\* line 1487: DBSetWithID("user", mentorID, {menteeIDs}) resolves
AddMentorshipSetMentor(t, ok) ==
    /\ task[t].pc = "amsSetMentor"
    /\ LET tk  == Failed(task[t], ok)
           now == DBGetUser(tk.msMentor)
       IN  IF ok
           THEN /\ users' = SetMenteeIDs(tk.msMentor, tk.msList)
                /\ Commit(t, CallbackTrue([tk EXCEPT !.wrote = TRUE,
                      !.stale = @ \/ tk.msList #
                          AddMentee(now.hasMenteeIDs, now.menteeIDs,
                                    tk.msMentee)]))
           ELSE /\ UNCHANGED users
                /\ Commit(t, ErrorCallback(tk, "gateway"))
    /\ Gateway(ok)
    /\ UNCHANGED <<reqs, nCreated, AllSockets, sock>>

(***************************************************************************)
(* removeMentorship (lines 1491-1524)                                      *)
(***************************************************************************)
\* line 1514: mentorMenteeList.splice(mentorMenteeList.indexOf(menteeID), 1)
RemoveMentee(list, menteeID) == Splice(list, IndexOf(list, menteeID), 1)

\* line 1493: DBGetWithID("user", mentorID) resolves
RemoveMentorshipGetMentor(t, ok) ==
    /\ task[t].pc = "rmsGetMentor"
    /\ LET tk        == Failed(task[t], ok)
           mentorObj == DBGetUser(tk.msMentor)
       IN  Commit(t,
             IF ~ok THEN ErrorCallback(tk, "gateway")
             ELSE IF ~mentorObj.exists
             THEN ErrorCallback(tk, "Mentor does not exist")
             ELSE [tk EXCEPT !.pc = "rmsGetMentee",
                             !.msHas = mentorObj.hasMenteeIDs,
                             !.msList = mentorObj.menteeIDs])
    /\ Gateway(ok)
    /\ UNCHANGED <<users, reqs, nCreated, AllSockets, sock>>

\* line 1498: DBGetWithID("user", menteeID) resolves
RemoveMentorshipGetMentee(t, ok) ==
    /\ task[t].pc = "rmsGetMentee"
    /\ LET tk == Failed(task[t], ok)
       IN  Commit(t,
             IF ~ok THEN ErrorCallback(tk, "gateway")
             ELSE IF ~DBGetUser(tk.msMentee).exists
             THEN ErrorCallback(tk, "Mentee does not exist")
             ELSE [tk EXCEPT !.pc = "rmsSetMentee"])
    /\ Gateway(ok)
    /\ UNCHANGED <<users, reqs, nCreated, AllSockets, sock>>

\* line 1505: DBSetWithID("user", menteeID, {mentorID: null}) resolves;
\* lines 1508-1519 follow
RemoveMentorshipSetMentee(t, ok) ==
    /\ task[t].pc = "rmsSetMentee"
    /\ LET tk == Failed(task[t], ok)
       IN  IF ok
           THEN /\ users' = SetMentorID(tk.msMentee, NoId)
                /\ Commit(t,
                     IF ~tk.msHas
                     THEN ErrorCallback([tk EXCEPT !.wrote = TRUE],
                                        "Mentor does not have any mentees")
                     ELSE [tk EXCEPT !.pc = "rmsSetMentor", !.wrote = TRUE,
                             !.msList = RemoveMentee(tk.msList, tk.msMentee)])
           ELSE /\ UNCHANGED users
                /\ Commit(t, ErrorCallback(tk, "gateway"))
    /\ Gateway(ok)
    /\ UNCHANGED <<reqs, nCreated, AllSockets, sock>>

\* line 1522: DBSetWithID("user", mentorID, {menteeIDs}) resolves
RemoveMentorshipSetMentor(t, ok) ==
    /\ task[t].pc = "rmsSetMentor"
    /\ LET tk == Failed(task[t], ok)
       IN  IF ok
           THEN /\ users' = SetMenteeIDs(tk.msMentor, tk.msList)
                /\ Commit(t, CallbackTrue([tk EXCEPT !.wrote = TRUE]))
           ELSE /\ UNCHANGED users
                /\ Commit(t, ErrorCallback(tk, "gateway"))
    /\ Gateway(ok)
    /\ UNCHANGED <<reqs, nCreated, AllSockets, sock>>

(***************************************************************************)
(* Specifications.  Spec: commands arrive one after the other and every    *)
(* gateway call succeeds.  SpecFault: up to MaxFaults gateway calls fail.  *)
(***************************************************************************)
Emit(t) ==
    \/ \E s \in Sessions, hasCb \in BOOLEAN, mentorID \in UserIds :
          EmitMentorshipRequest(t, s, hasCb, "send", mentorID, NoReq, NoId)
    \/ \E s \in Sessions, action \in {"accept", "decline", "cancel"},
          reqID \in ReqIds :
          EmitMentorshipRequest(t, s, TRUE, action, NoId, reqID, NoId)
    \/ \E s \in Sessions :
          EmitMentorshipRequest(t, s, TRUE, "removeMentor", NoId, NoReq, NoId)
    \/ \E s \in Sessions, menteeID \in Users :
          EmitMentorshipRequest(t, s, TRUE, "removeMentee", NoId, NoReq, menteeID)
    \/ \E hasCb \in BOOLEAN, mentorID \in Users, menteeID \in Users :
          EmitGetMentorshipRequestBetweenUsers(t, hasCb, mentorID, menteeID)

Resolve(t, ok) ==
    \/ UpdateSelf(t, ok)
    \/ SendGetTarget(t, ok)
    \/ FindGetMentor(t, ok)
    \/ FindGetMentee(t, ok)
    \/ FindGetRequest(t, ok)
    \/ RemoveFromUserGet(t, ok)
    \/ RemoveFromUserSet(t, ok)
    \/ AddRequestCreate(t, ok)
    \/ AddToUserGet(t, ok)
    \/ AddToUserSet(t, ok)
    \/ GetRequest(t, ok)
    \/ RemoveRequestGet(t, ok)
    \/ RemoveRequestDelete(t, ok)
    \/ AddMentorshipGetMentor(t, ok)
    \/ AddMentorshipGetMentee(t, ok)
    \/ AddMentorshipSetMentee(t, ok)
    \/ AddMentorshipSetMentor(t, ok)
    \/ RemoveMentorshipGetMentor(t, ok)
    \/ RemoveMentorshipGetMentee(t, ok)
    \/ RemoveMentorshipSetMentee(t, ok)
    \/ RemoveMentorshipSetMentor(t, ok)

Next ==
    \/ \E t \in Tasks : Emit(t)
    \/ \E t \in Tasks : Resolve(t, TRUE)
    \/ \E t \in Tasks : Return(t)

Spec == Init /\ [][Next]_vars

NextFault ==
    \/ \E t \in Tasks : Emit(t)
    \/ \E t \in Tasks, ok \in BOOLEAN :
          (~ok => nFaults < MaxFaults) /\ Resolve(t, ok)
    \/ \E t \in Tasks : Return(t)

SpecFault == Init /\ [][NextFault]_vars

(***************************************************************************)
(* The session state machine: socket events and resolved awaits of         *)
(* _enter_connect_state, _enter_authed_user_state and handleCreateUser.    *)
(* The bodies of the authenticated handlers are the engine above; here a   *)
(* command only reaches its listeners.                                     *)
(***************************************************************************)
\* socket event "connect" (line 116): _enter_connect_state up to its await
OnConnect ==
    /\ ~ses.connected
    /\ ses.nConnects < MaxConnects
    /\ ses' = [SetState(ses, "connecting") EXCEPT
                  !.connected = TRUE, !.nConnects = @ + 1]
    /\ awaits' = [awaits EXCEPT !.lookup = @ + 1]
    /\ UNCHANGED <<accounts, socketMap>>
    /\ UNCHANGED <<engineVars, idxVars, asmVars>>

\* socket event "disconnect" (line 112) after the client has left
OnDisconnect ==
    /\ ses.connected
    /\ ses' = Disconnect(ses)
    /\ socketMap' = SocketMapDisconnect(ses, socketMap)
    /\ UNCHANGED <<accounts, awaits>>
    /\ UNCHANGED <<engineVars, idxVars, asmVars>>

\* line 165: DBGet("user", [["OAuthSubID", "==", userSubID]]) resolves
\* (lines 166-179); res[0] is any of the documents found
EnterConnectStateLookup(ok) ==
    /\ awaits.lookup > 0
    /\ IF ~ok
       THEN /\ ses' = Disconnect(SetState(ses, "connect_error"))
            /\ socketMap' = SocketMapDisconnect(ses, socketMap)
            /\ awaits' = [awaits EXCEPT !.lookup = @ - 1]
       ELSE IF accounts = <<>>
       THEN /\ ses' = EnterAuthedNouserState(ses)
            /\ awaits' = [awaits EXCEPT !.lookup = @ - 1]
            /\ UNCHANGED socketMap
       ELSE /\ \E i \in 1..Len(accounts) :
                  awaits' = [awaits EXCEPT !.lookup = @ - 1,
                                           !.getUserData[accounts[i]] = @ + 1]
            /\ UNCHANGED <<ses, socketMap>>
    /\ UNCHANGED accounts
    /\ UNCHANGED <<engineVars, idxVars, asmVars>>

\* line 195: GetUserData(userID) resolves (lines 195-204); a rejection is
\* caught nowhere and ends the method
EnterAuthedUserStateGetUserData(a, ok) ==
    /\ awaits.getUserData[a] > 0
    /\ IF ok
       THEN LET S1  == [ses EXCEPT !.userID = a]
                map == SocketMapAdd(S1, socketMap)
                S2  == SetState(CleanupSocketEvents(AddSelfToSocketMap(S1)),
                                "authed_user")
            IN  /\ ses' = [S2 EXCEPT !.nEntered = @ + 1,
                                     !.entryListed = map[a] > 0]
                /\ socketMap' = map
                /\ awaits' = [awaits EXCEPT !.getUserData[a] = @ - 1,
                                            !.questions = @ + 1]
       ELSE /\ ses' = [ses EXCEPT !.fault = TRUE]
            /\ awaits' = [awaits EXCEPT !.getUserData[a] = @ - 1]
            /\ UNCHANGED socketMap
    /\ UNCHANGED accounts
    /\ UNCHANGED <<engineVars, idxVars, asmVars>>

RECURSIVE AddStateSocketEvents(_, _, _)
\* the eight _addStateSocketEvent calls of lines 211-243
AddStateSocketEvents(S, events, gen) ==
    IF events = {} THEN S
    ELSE LET e == CHOOSE x \in events : TRUE
         IN  AddStateSocketEvents(AddStateSocketEvent(S, e, gen),
                                  events \ {e}, gen)

\* line 204: GetAvailableAssessmentQuestions() resolves (lines 204-243)
EnterAuthedUserStateQuestions(ok) ==
    /\ awaits.questions > 0
    /\ awaits' = [awaits EXCEPT !.questions = @ - 1]
    /\ IF ok
       THEN LET gen == ses.nBinds + 1
            IN  ses' = AddStateSocketEvents(
                          [ses EXCEPT !.nInitial = @ + 1, !.nBinds = gen],
                          AuthedEvents, gen)
       ELSE ses' = [ses EXCEPT !.fault = TRUE]
    /\ UNCHANGED <<accounts, socketMap>>
    /\ UNCHANGED <<engineVars, idxVars, asmVars>>

\* a command that reaches `times` listeners of the session
Ran(S, event) ==
    [S EXCEPT !.ran = [event |-> event, state |-> S.state,
                       times |-> ListenerCount(S, event)]]

\* socket event "createUser" -> handleCreateUser up to its first await
\* (lines 261-306); a payload that is not valid is answered callback(false)
EmitCreateUser(valid) ==
    /\ ses.connected
    /\ CreateUserEvent \in Listening(ses)
    /\ Len(accounts) + awaits.validUsername + awaits.dbCreate
          + ListenerCount(ses, CreateUserEvent) <= MaxAccounts
    /\ ses' = Ran(ses, CreateUserEvent)
    /\ awaits' = IF valid
                 THEN [awaits EXCEPT !.validUsername =
                          @ + ListenerCount(ses, CreateUserEvent)]
                 ELSE awaits
    /\ UNCHANGED <<accounts, socketMap>>
    /\ UNCHANGED <<engineVars, idxVars, asmVars>>

\* line 306: isValidUsername(username) resolves; a rejection is answered
\* callback(false)
CreateUserValidUsername(ok) ==
    /\ awaits.validUsername > 0
    /\ awaits' = [awaits EXCEPT !.validUsername = @ - 1,
                                !.dbCreate = IF ok THEN @ + 1 ELSE @]
    /\ UNCHANGED <<ses, accounts, socketMap>>
    /\ UNCHANGED <<engineVars, idxVars, asmVars>>

\* line 337: DBCreate("user", userData) resolves (lines 337-354): on
\* success callback(true) and _enter_authed_user_state(userID) up to its
\* await; a rejection is answered callback(false)
CreateUserDBCreate(ok) ==
    /\ awaits.dbCreate > 0
    /\ Len(accounts) < MaxAccounts
    /\ LET userID == Len(accounts) + 1
       IN  IF ok
           THEN /\ accounts' = Append(accounts, userID)
                /\ awaits' = [awaits EXCEPT !.dbCreate = @ - 1,
                                            !.getUserData[userID] = @ + 1]
           ELSE /\ awaits' = [awaits EXCEPT !.dbCreate = @ - 1]
                /\ UNCHANGED accounts
    /\ UNCHANGED <<ses, socketMap>>
    /\ UNCHANGED <<engineVars, idxVars, asmVars>>

\* one of the eight authenticated events reaches its listeners
EmitCommand(event) ==
    /\ ses.connected
    /\ event \in Listening(ses)
    /\ ses' = Ran(ses, event)
    /\ UNCHANGED <<accounts, socketMap, awaits>>
    /\ UNCHANGED <<engineVars, idxVars, asmVars>>

\* a pending await of the session resolves
SessionResolve(ok) ==
    \/ EnterConnectStateLookup(ok)
    \/ \E a \in AccountIds : EnterAuthedUserStateGetUserData(a, ok)
    \/ EnterAuthedUserStateQuestions(ok)
    \/ CreateUserValidUsername(ok)
    \/ CreateUserDBCreate(ok)

NextSession ==
    \/ OnConnect
    \/ OnDisconnect
    \/ \E ok \in BOOLEAN : SessionResolve(ok)
    \/ \E valid \in BOOLEAN : EmitCreateUser(valid)
    \/ \E event \in AuthedEvents : EmitCommand(event)

\* the session is built for an OAuthSubID without a user document, or with
\* one
InitSes ==
    /\ InitEngine /\ InitIndex /\ InitAssessments
    /\ \E accts \in {<<>>, <<1>>} : InitSession(accts)

\* every promise the gateway hands out settles
SpecSession ==
    InitSes /\ [][NextSession]_vars
            /\ WF_vars(\E ok \in BOOLEAN : SessionResolve(ok))

(***************************************************************************)
(* The handlers of the Mentor Availability Index.  A session runs one      *)
(* updateProfile and one getAllMentors at a time here; the two, and the    *)
(* rebuild, interleave at their awaits.                                    *)
(***************************************************************************)
IndexFrame == UNCHANGED <<reqs, nCreated, task, hist, sesVars, asmVars>>

\* _updateSelf of the session s of a handler: the new this.user, or a
\* message and a disconnect
SessionUpdateSelf(s, ok) ==
    LET self == DBGetUser(sock[s].user.id)
        good == ok /\ self.exists
    IN  /\ sock' = [sock EXCEPT ![s] =
                      IF good
                      THEN [@ EXCEPT !.user = UserCache(sock[s].user.id, self)]
                      ELSE [@ EXCEPT !.connected = FALSE,
                                     !.inAllSockets = FALSE]]
        /\ AllSockets' = IF good THEN AllSockets
                         ELSE RemoveSelfFromSocketMap(s)
        /\ nFaults' = IF ok THEN nFaults ELSE nFaults + 1

\* _updateSelf in an index handler; profile is what it reads of this.user
IndexUpdateSelf(s, ok) ==
    /\ SessionUpdateSelf(s, ok)
    /\ profile' = IF ok /\ DBGetUser(sock[s].user.id).exists
                  THEN [profile EXCEPT ![s] = Flags(DBGetUser(sock[s].user.id))]
                  ELSE profile

UpdateSelfMessages(ok) ==
    IF ok THEN <<>> ELSE <<"There was a problem syncing your data.">>

\* socket event "updateProfile" -> handleUpdateProfile(dataRaw, callback);
\* the payload carries at most isMentor and acceptingMentees
EmitUpdateProfile(s, hasCb, isMentor, acceptingMentees) ==
    /\ upd.pc = "idle"
    /\ Installed(s)
    /\ upd' = [IdleUpdate EXCEPT !.pc = "updateSelf", !.sock = s,
                  !.hasCb = hasCb, !.isMentor = isMentor,
                  !.acceptingMentees = acceptingMentees,
                  !.wasIn = sock[s].user.id \in index]
    /\ UNCHANGED <<users, AllSockets, sock, nFaults, index, profile, gam, sync>>
    /\ IndexFrame

\* lines 364-667: `await this._updateSelf()` resolves, the payload is
\* validated
UpdateProfileUpdateSelf(ok) ==
    /\ upd.pc = "updateSelf"
    /\ IndexUpdateSelf(upd.sock, ok)
    /\ LET u == [upd EXCEPT !.msgs = UpdateSelfMessages(ok)]
       IN  upd' =
             IF ~u.hasCb
             THEN [u EXCEPT !.pc = "done",
                            !.msgs = Append(@, "No callback function was provided.")]
             ELSE IF u.isMentor = "bad"
             THEN [u EXCEPT !.pc = "done", !.cb = "false",
                            !.msgs = Append(@, "isMentor value is invalid.")]
             ELSE IF u.acceptingMentees = "bad"
             THEN [u EXCEPT !.pc = "done", !.cb = "false",
                            !.msgs = Append(@, "acceptingMentees value is not valid.")]
             ELSE [u EXCEPT !.pc = "set"]
    /\ UNCHANGED <<users, index, gam, sync>>
    /\ IndexFrame

\* lines 682-684: (this.user.acceptingMentees || acceptingMentees) &&
\* (this.user.isMentor || isMentor), this.user being the document read
\* before the write
IsAcceptingMentor(me, isMentor, acceptingMentees) ==
    (me.acceptingMentees \/ acceptingMentees = "true")
        /\ (me.isMentor \/ isMentor = "true")

\* lines 685-692: the index after handleUpdateProfile's decision
IndexAfterUpdate(S, id, me, isMentor, acceptingMentees) ==
    IF IsAcceptingMentor(me, isMentor, acceptingMentees)
    THEN S \cup {id}
    ELSE IF isMentor # "true" \/ acceptingMentees # "true"
    THEN S \ {id}
    ELSE S

\* what an index operation that is awaiting remembers of the additions made
\* meanwhile
NoteAdded(op, awaiting, id, isAdded) ==
    IF ~awaiting THEN op
    ELSE IF isAdded THEN [op EXCEPT !.added = @ \cup {id}]
    ELSE [op EXCEPT !.added = @ \ {id}]

\* lines 668-694: DBSetWithID("user", this.user.id, newUserObj, true)
\* resolves; the index is adjusted and the callback called
UpdateProfileSet(ok) ==
    /\ upd.pc = "set"
    /\ nFaults' = IF ok THEN nFaults ELSE nFaults + 1
    /\ LET s  == upd.sock
           id == sock[s].user.id
           S  == IndexAfterUpdate(index, id, profile[s],
                                  upd.isMentor, upd.acceptingMentees)
       IN  IF ~ok
           THEN /\ upd' = [upd EXCEPT !.pc = "done", !.cb = "false",
                                      !.msgs = Append(@, "gateway")]
                /\ UNCHANGED <<users, index, gam, sync>>
           ELSE /\ users' = [users EXCEPT ![id] =
                       [@ EXCEPT !.isMentor = MergeFlag(@, upd.isMentor),
                                 !.acceptingMentees =
                                     MergeFlag(@, upd.acceptingMentees)]]
                /\ index' = S
                /\ upd' = [upd EXCEPT !.pc = "done", !.cb = "true",
                                      !.inIndex = id \in S]
                /\ gam' = NoteAdded(gam, gam.pc = "fetch", id, id \in S)
                /\ sync' = NoteAdded(sync, sync.pc # "done", id, id \in S)
    /\ UNCHANGED <<AllSockets, sock, profile>>
    /\ IndexFrame

\* the promise of a finished handleUpdateProfile settles
UpdateProfileReturn ==
    /\ upd.pc = "done"
    /\ upd' = IdleUpdate
    /\ UNCHANGED <<users, AllSockets, sock, nFaults, index, profile, gam, sync>>
    /\ IndexFrame

\* socket event "getAllMentors" -> handleGetAllMentors(callback)
EmitGetAllMentors(s, hasCb) ==
    /\ gam.pc = "idle"
    /\ Installed(s)
    /\ gam' = [IdleGetAll EXCEPT !.pc = "updateSelf", !.sock = s,
                                 !.hasCb = hasCb]
    /\ UNCHANGED <<users, AllSockets, sock, nFaults, index, profile, upd, sync>>
    /\ IndexFrame

\* lines 737-751: the fetches have settled; the ids whose fetch rejected or
\* found nothing leave the index, the others are handed to the callback
GetAllMentorsSettled(g) ==
    [g EXCEPT !.pc = "done", !.cb = "list", !.mentors = g.ids \ g.bad,
              !.ids = {}, !.bad = {}, !.added = {},
              !.lost = {id \in g.added \cap g.bad :
                          users[id].isMentor /\ users[id].acceptingMentees}]

\* lines 713-734: `await this._updateSelf()` resolves; the ids in the index
\* are copied and one DBGetWithID per id is started.  Promise.allSettled of
\* no promise settles without a gateway call.
GetAllMentorsUpdateSelf(ok) ==
    /\ gam.pc = "updateSelf"
    /\ IndexUpdateSelf(gam.sock, ok)
    /\ LET g == [gam EXCEPT !.msgs = UpdateSelfMessages(ok)]
       IN  gam' =
             IF ~g.hasCb
             THEN [g EXCEPT !.pc = "done",
                            !.msgs = Append(@, "Callback was not specified.")]
             ELSE IF index = {}
             THEN GetAllMentorsSettled(g)
             ELSE [g EXCEPT !.pc = "fetch", !.ids = index, !.pending = index]
    /\ UNCHANGED <<users, index, upd, sync>>
    /\ IndexFrame

\* one DBGetWithID("user", mentorID) of line 730 settles; with the last one
\* Promise.allSettled resolves and lines 734-765 run
GetAllMentorsFetch(id, ok) ==
    /\ gam.pc = "fetch"
    /\ id \in gam.pending
    /\ nFaults' = IF ok THEN nFaults ELSE nFaults + 1
    /\ LET g == [gam EXCEPT !.pending = @ \ {id},
                            !.bad = IF ok /\ DBGetUser(id).exists THEN @
                                    ELSE @ \cup {id}]
       IN  IF g.pending # {}
           THEN gam' = g /\ UNCHANGED index
           ELSE gam' = GetAllMentorsSettled(g) /\ index' = index \ g.bad
    /\ UNCHANGED <<users, AllSockets, sock, profile, upd, sync>>
    /\ IndexFrame

\* the promise of a finished handleGetAllMentors settles
GetAllMentorsReturn ==
    /\ gam.pc = "done"
    /\ gam' = IdleGetAll
    /\ UNCHANGED <<users, AllSockets, sock, nFaults, index, profile, upd, sync>>
    /\ IndexFrame

\* lines 2010-2017: the store evaluates the rebuild's query
SyncQuery ==
    /\ sync.pc = "query"
    /\ sync' = [sync EXCEPT !.pc = "response",
                  !.result = {id \in DOMAIN users :
                                /\ users[id].exists
                                /\ users[id].isMentor
                                /\ users[id].acceptingMentees}]
    /\ UNCHANGED <<users, AllSockets, sock, nFaults, index, profile, upd, gam>>
    /\ IndexFrame

\* lines 2019-2033: the query's promise resolves; the set built from its
\* result replaces AllAcceptingMentorIDs
SyncAllAcceptingMentorIDs ==
    /\ sync.pc = "response"
    /\ index' = sync.result
    /\ sync' = [sync EXCEPT !.pc = "done", !.result = {}, !.added = {},
                  !.lost = {id \in sync.added \ sync.result :
                              users[id].isMentor /\ users[id].acceptingMentees}]
    /\ UNCHANGED <<users, AllSockets, sock, nFaults, profile, upd, gam>>
    /\ IndexFrame

\* updateProfile is emitted by the session of u1, getAllMentors by that of u2
NextIndex ==
    \/ \E s \in {"s1"}, hasCb \in BOOLEAN, isMentor \in FlagValues,
          acceptingMentees \in FlagValues :
          EmitUpdateProfile(s, hasCb, isMentor, acceptingMentees)
    \/ \E ok \in BOOLEAN :
          (~ok => nFaults < MaxFaults) /\ UpdateProfileUpdateSelf(ok)
    \/ \E ok \in BOOLEAN :
          (~ok => nFaults < MaxFaults) /\ UpdateProfileSet(ok)
    \/ UpdateProfileReturn
    \/ \E s \in {"s2"}, hasCb \in BOOLEAN : EmitGetAllMentors(s, hasCb)
    \/ \E ok \in BOOLEAN :
          (~ok => nFaults < MaxFaults) /\ GetAllMentorsUpdateSelf(ok)
    \/ \E id \in Users, ok \in BOOLEAN :
          (~ok => nFaults < MaxFaults) /\ GetAllMentorsFetch(id, ok)
    \/ GetAllMentorsReturn
    \/ SyncQuery
    \/ SyncAllAcceptingMentorIDs

SpecIndex == Init /\ [][NextIndex]_vars

(***************************************************************************)
(* handleSubmitAssessment and _getAssessment.  They are studied together   *)
(* with the mentorship commands, one command at a time.                    *)
(***************************************************************************)
AsmFrame == UNCHANGED <<reqs, nCreated, task, hist, sesVars, idxVars>>

\* ErrorCallback(msg) of both handlers: callback(false) and a message
AsmError(a, msg) ==
    [a EXCEPT !.pc = "done", !.cbs = Append(@, "false"),
              !.msgs = Append(@, msg)]

\* socket event "submitAssessment" -> handleSubmitAssessment(dataRaw, callback)
EmitSubmitAssessment(s, hasCb, action, id, questions) ==
    /\ asm.pc = "idle"
    /\ Quiescent
    /\ Installed(s)
    /\ action = "create" => nAsm < MaxAssessments
    /\ asm' = [IdleAsm EXCEPT !.pc = "updateSelf", !.sock = s,
                  !.cmd = "submitAssessment", !.hasCb = hasCb,
                  !.action = action, !.id = id, !.questions = questions,
                  !.self = sock[s].user.id, !.before = DBGetAsm(id)]
    /\ UNCHANGED <<users, AllSockets, sock, nFaults, assessments, nAsm>>
    /\ AsmFrame

\* socket event "getAssessment" -> _getAssessment(assessmentID, callback)
EmitGetAssessment(s, hasCb, id) ==
    /\ asm.pc = "idle"
    /\ Quiescent
    /\ Installed(s)
    /\ asm' = [IdleAsm EXCEPT !.pc = "updateSelf", !.sock = s,
                  !.cmd = "getAssessment", !.hasCb = hasCb, !.id = id,
                  !.self = sock[s].user.id, !.before = DBGetAsm(id)]
    /\ UNCHANGED <<users, AllSockets, sock, nFaults, assessments, nAsm>>
    /\ AsmFrame

\* lines 795-842, 885-895, 920-924, 954-958: the payload is validated
SubmitValidated(a) ==
    IF ~a.hasCb
    THEN [a EXCEPT !.pc = "done", !.msgs = Append(@, "No callback was provided.")]
    ELSE IF a.action \notin AssessmentActions
    THEN AsmError(a, "Assessment action is invalid.")
    ELSE IF a.action = "create"
    THEN IF a.questions \notin Questions
         THEN AsmError(a, "Questions are not valid")
         ELSE [a EXCEPT !.pc = "create"]
    ELSE IF a.id = NoAsm
    THEN AsmError(a, "ID was not provided")
    ELSE IF a.action = "edit" /\ a.questions \notin Questions
    THEN AsmError(a, "Questions are not valid")
    ELSE [a EXCEPT !.pc = "get"]

\* lines 1853-1873: the arguments of _getAssessment are validated
GetValidated(a) ==
    IF ~a.hasCb
    THEN [a EXCEPT !.pc = "done", !.msgs = Append(@, "No callback was provided")]
    ELSE IF a.id = NoAsm
    THEN AsmError(a, "Invalid assessmentID")
    ELSE [a EXCEPT !.pc = "getData"]

\* `await this._updateSelf()` of either handler resolves
AsmUpdateSelf(ok) ==
    /\ asm.pc = "updateSelf"
    /\ SessionUpdateSelf(asm.sock, ok)
    /\ LET a == [asm EXCEPT !.msgs = UpdateSelfMessages(ok),
                            !.faulted = ~ok]
       IN  asm' = IF a.cmd = "submitAssessment" THEN SubmitValidated(a)
                  ELSE GetValidated(a)
    /\ UNCHANGED <<users, assessments, nAsm>>
    /\ AsmFrame

\* lines 843-871: DBCreate("assessment", ..) resolves; the new id is pushed
\* on this.user.assessments
SubmitCreate(ok) ==
    /\ asm.pc = "create"
    /\ nFaults' = IF ok THEN nFaults ELSE nFaults + 1
    /\ LET s  == asm.sock
           id == nAsm + 1
       IN  IF ~ok
           THEN /\ asm' = AsmError([asm EXCEPT !.faulted = TRUE], "gateway")
                /\ UNCHANGED <<assessments, nAsm, sock>>
           ELSE /\ assessments' = [assessments EXCEPT ![id] =
                      [exists |-> TRUE, userID |-> sock[s].user.id,
                       published |-> FALSE, questions |-> asm.questions]]
                /\ nAsm' = id
                /\ sock' = [sock EXCEPT ![s].user.assessments = Append(@, id)]
                /\ asm' = [asm EXCEPT !.pc = "createSet", !.created = id]
    /\ UNCHANGED <<users, AllSockets>>
    /\ AsmFrame

\* lines 872-883, 995: DBSetWithID("user", .., {isMentee, assessments})
\* resolves; callback(createdAssessmentID), then the callback(true) every
\* branch falls through to
SubmitCreateSet(ok) ==
    /\ asm.pc = "createSet"
    /\ nFaults' = IF ok THEN nFaults ELSE nFaults + 1
    /\ LET me == sock[asm.sock].user
       IN  IF ~ok
           THEN /\ asm' = AsmError([asm EXCEPT !.faulted = TRUE], "gateway")
                /\ UNCHANGED users
           ELSE /\ users' = [users EXCEPT ![me.id] =
                      [@ EXCEPT !.isMentee = TRUE,
                                !.assessments = me.assessments]]
                /\ asm' = [asm EXCEPT !.pc = "done", !.cbs = <<"id", "true">>]
    /\ UNCHANGED <<AllSockets, sock, assessments, nAsm>>
    /\ AsmFrame

\* line 898 without the comparison of the owner with this.user.id
MutOwned(doc, userID) == doc.exists

\* lines 898, 927, 962: assessmentRes exists and belongs to this.user
Owned(doc, userID) == doc.exists /\ doc.userID = userID

\* lines 897-905, 926-932, 961-979: DBGetWithID("assessment", id) of edit,
\* delete, publish or unpublish resolves.  The call is outside the inner
\* try: a failure reaches the handler's catch, which sends a message.
SubmitGet(ok) ==
    /\ asm.pc = "get"
    /\ nFaults' = IF ok THEN nFaults ELSE nFaults + 1
    /\ LET doc == DBGetAsm(asm.id)
       IN  asm' =
             IF ~ok
             THEN [asm EXCEPT !.pc = "done", !.faulted = TRUE,
                              !.msgs = Append(@, "caught")]
             ELSE IF ~Owned(doc, sock[asm.sock].user.id)
             THEN AsmError(asm, "it does not exist, or doesn't belong to you.")
             ELSE IF /\ asm.action \in {"publish", "unpublish"}
                     /\ doc.published = (asm.action = "publish")
             THEN AsmError(asm, "it is already published / unpublished")
             ELSE [asm EXCEPT !.pc = "write", !.res = doc]
    /\ UNCHANGED <<users, AllSockets, sock, assessments, nAsm>>
    /\ AsmFrame

\* lines 907-918, 934-953, 981-995: the write of edit (callback(true) of
\* line 918 and again of line 995), delete (this.user.assessments loses the
\* id, or its last element) or publish / unpublish resolves
SubmitWrite(ok) ==
    /\ asm.pc = "write"
    /\ nFaults' = IF ok THEN nFaults ELSE nFaults + 1
    /\ LET s    == asm.sock
           mine == sock[s].user.assessments
       IN  IF ~ok
           THEN /\ asm' = AsmError([asm EXCEPT !.faulted = TRUE], "gateway")
                /\ UNCHANGED <<assessments, sock>>
           ELSE /\ assessments' = [assessments EXCEPT ![asm.id] =
                      CASE asm.action = "edit" ->
                             [@ EXCEPT !.exists = TRUE,
                                       !.questions = asm.questions]
                        [] asm.action = "delete" -> NoAsmDoc
                        [] OTHER ->
                             [@ EXCEPT !.exists = TRUE,
                                       !.published = (asm.action = "publish")]]
                /\ sock' = IF asm.action = "delete"
                           THEN [sock EXCEPT ![s].user.assessments =
                                    Splice(mine, IndexOf(mine, asm.id), 1)]
                           ELSE sock
                /\ asm' = [asm EXCEPT !.pc = "done",
                              !.cbs = IF asm.action = "edit"
                                      THEN <<"true", "true">>
                                      ELSE <<"true">>]
    /\ UNCHANGED <<users, AllSockets, nAsm>>
    /\ AsmFrame

\* GetAssessmentData lines 2150-2167: DBGetWithID("assessment", id)
\* resolves; the taker gets the document
GetAssessmentData(ok) ==
    /\ asm.pc = "getData"
    /\ nFaults' = IF ok THEN nFaults ELSE nFaults + 1
    /\ LET doc == DBGetAsm(asm.id)
       IN  asm' =
             IF ~ok
             THEN AsmError([asm EXCEPT !.faulted = TRUE], "gateway")
             ELSE IF ~doc.exists
             THEN AsmError(asm, "The requested assessment does not exist.")
             ELSE IF sock[asm.sock].user.id = doc.userID
             THEN [asm EXCEPT !.pc = "done", !.res = doc, !.cbs = <<"full">>]
             ELSE [asm EXCEPT !.pc = "getRequester", !.res = doc]
    /\ UNCHANGED <<users, AllSockets, sock, assessments, nAsm>>
    /\ AsmFrame

\* GetAssessmentData lines 2188-2192: the requester lists the taker among
\* its menteeIDs
MayView(requester, requesterID, owner) ==
    requester.hasMenteeIDs /\ Includes(requester.menteeIDs, owner)

\* GetAssessmentData lines 2170-2196: DBGetWithID("user", requestingUserID)
\* resolves; a mentor of the taker gets the document if it is published
\* and {published: false, id} otherwise
GetAssessmentRequester(ok) ==
    /\ asm.pc = "getRequester"
    /\ nFaults' = IF ok THEN nFaults ELSE nFaults + 1
    /\ LET id        == sock[asm.sock].user.id
           requester == DBGetUser(id)
       IN  asm' =
             IF ~ok
             THEN AsmError([asm EXCEPT !.faulted = TRUE], "gateway")
             ELSE IF ~requester.exists
             THEN AsmError(asm, "The requesting user does not exist.")
             ELSE IF MayView(requester, id, asm.res.userID)
             THEN [asm EXCEPT !.pc = "done",
                     !.cbs = IF asm.res.published THEN <<"full">>
                             ELSE <<"stub">>]
             ELSE AsmError(asm, "You do not have permission to view this assessment")
    /\ UNCHANGED <<users, AllSockets, sock, assessments, nAsm>>
    /\ AsmFrame

\* the promise of a finished handler settles
AsmReturn ==
    /\ asm.pc = "done"
    /\ asm' = IdleAsm
    /\ UNCHANGED <<users, AllSockets, sock, nFaults, assessments, nAsm>>
    /\ AsmFrame

\* the session of u3 creates the assessments and turns to the mentors u1
\* and u2; every session edits, deletes, publishes and reads
NextAssess ==
    \/ /\ asm.pc = "idle"
       /\ \E t \in Tasks :
            \/ \E mentorID \in {"u1", "u2"} :
                  EmitMentorshipRequest(t, "s3", TRUE, "send",
                                        mentorID, NoReq, NoId)
            \/ \E s \in {"s1", "s2"}, reqID \in ReqIds :
                  EmitMentorshipRequest(t, s, TRUE, "accept", NoId, reqID, NoId)
            \/ EmitMentorshipRequest(t, "s3", TRUE, "removeMentor",
                                     NoId, NoReq, NoId)
    \/ \E t \in Tasks : Resolve(t, TRUE)
    \/ \E t \in Tasks : Return(t)
    \/ \E hasCb \in BOOLEAN, q \in Questions \cup {"invalid"} :
          EmitSubmitAssessment("s3", hasCb, "create", NoAsm, q)
    \/ \E s \in Sessions, id \in AsmIds \cup {NoAsm},
          q \in Questions \cup {"invalid"} :
          EmitSubmitAssessment(s, TRUE, "edit", id, q)
    \/ \E s \in Sessions, id \in AsmIds \cup {NoAsm},
          action \in {"delete", "publish", "unpublish", "bogus"} :
          EmitSubmitAssessment(s, TRUE, action, id, "none")
    \/ \E s \in Sessions, hasCb \in BOOLEAN, id \in AsmIds \cup {NoAsm} :
          EmitGetAssessment(s, hasCb, id)
    \/ \E ok \in BOOLEAN :
          /\ ~ok => nFaults < MaxFaults
          /\ \/ AsmUpdateSelf(ok)
             \/ SubmitCreate(ok)
             \/ SubmitCreateSet(ok)
             \/ SubmitGet(ok)
             \/ SubmitWrite(ok)
             \/ GetAssessmentData(ok)
             \/ GetAssessmentRequester(ok)
    \/ AsmReturn

SpecAssess == Init /\ [][NextAssess]_vars

(***************************************************************************)
(* Overlapping commands.  Two handlers are in flight together: sends to    *)
(* the mentor u1 by the other users and accepts by u1.  They start         *)
(* either with no request, or with the requests of u2 and of u3 pending at *)
(* u1, who is connected on two sessions.                                   *)
(***************************************************************************)
InitRace ==
    /\ \/ InitEngine
       \/ /\ users = [u \in Users |->
                        [NewUserDoc(TRUE, TRUE) EXCEPT
                           !.hasRequests = TRUE,
                           !.mentorshipRequests =
                               CASE u = "u1" -> <<1, 2>>
                                 [] u = "u2" -> <<1>>
                                 [] OTHER -> <<2>>]]
          /\ reqs = [r \in ReqIds |->
                       CASE r = 1 -> [exists |-> TRUE, mentorID |-> "u1",
                                      menteeID |-> "u2"]
                         [] r = 2 -> [exists |-> TRUE, mentorID |-> "u1",
                                      menteeID |-> "u3"]
                         [] OTHER -> NoReqDoc]
          /\ nCreated = 2
          /\ AllSockets = [u \in Users |->
                             CASE u = "u1" -> <<"s1", "s2">>
                               [] u = "u2" -> <<>>
                               [] OTHER -> <<"s3">>]
          /\ sock = [s \in Sessions |->
                       [state |-> "authed_user", connected |-> TRUE,
                        inAllSockets |-> TRUE,
                        user |-> UserCache(IF s = "s3" THEN "u3" ELSE "u1",
                                           NewUserDoc(TRUE, TRUE))]]
          /\ task = [t \in Slots |-> IdleTask]
          /\ hist = NoSend
          /\ nFaults = 0
    /\ InitSession(<<>>) /\ InitIndex /\ InitAssessments

\* the sends in flight that have not created their request yet
SendsInFlight ==
    Cardinality({t \in Slots : /\ task[t].action = "send"
                               /\ task[t].pc \notin {"idle", "done"}
                               /\ task[t].newReq = NoReq})

NextRace ==
    \/ \E t \in Slots, s \in Sessions :
          /\ task[t].pc = "idle"
          /\ sock[s].user.id # "u1"
          /\ nCreated + SendsInFlight < MaxReqs
          /\ StartMentorshipRequest(t, s, TRUE, "send", "u1", NoReq, NoId)
    \/ \E t \in Slots, s \in Sessions, reqID \in ReqIds :
          /\ task[t].pc = "idle"
          /\ sock[s].user.id = "u1"
          /\ StartMentorshipRequest(t, s, TRUE, "accept", NoId, reqID, NoId)
    \/ \E t \in Slots :
          \/ UpdateSelf(t, TRUE)
          \/ SendGetTarget(t, TRUE)
          \/ FindGetMentor(t, TRUE)
          \/ FindGetMentee(t, TRUE)
          \/ FindGetRequest(t, TRUE)
          \/ AddRequestCreate(t, TRUE)
          \/ AddToUserGet(t, TRUE)
          \/ AddToUserSet(t, TRUE)
          \/ GetRequest(t, TRUE)
          \/ RemoveRequestGet(t, TRUE)
          \/ RemoveRequestDelete(t, TRUE)
          \/ RemoveFromUserGet(t, TRUE)
          \/ RemoveFromUserSet(t, TRUE)
          \/ AddMentorshipGetMentor(t, TRUE)
          \/ AddMentorshipGetMentee(t, TRUE)
          \/ AddMentorshipSetMentee(t, TRUE)
          \/ AddMentorshipSetMentor(t, TRUE)
    \/ \E t \in Slots : Return(t)

SpecRace == InitRace /\ [][NextRace]_vars

(***************************************************************************)
(* Properties.  A handler that has finished keeps its frame (pc = "done")  *)
(* until its promise settles, so the state in which Done(t) holds is the   *)
(* state the command leaves behind; hist is the command before it.         *)
(***************************************************************************)
Done(t) == task[t].pc = "done"

MenteeIDs(id) == DBGetUser(id).menteeIDs

\* the standalone records with this mentor and this mentee
RecordsBetween(mentorID, menteeID) ==
    {r \in ReqIds : /\ reqs[r].exists
                    /\ reqs[r].mentorID = mentorID
                    /\ reqs[r].menteeID = menteeID}

\* the command before this one was a send that succeeded, with no gateway
\* failure in it
AfterSend == hist.ok /\ ~hist.faulted

\* C1: after a send reports success (callback true) the new id is in the
\* mentorshipRequests of the mentor and of the mentee, and exactly one
\* standalone record has that mentorID and menteeID, also when a gateway
\* write inside the send has failed.
C1_SendSymmetry ==
    \A t \in Tasks :
        (Done(t) /\ task[t].action = "send" /\ task[t].cb = "true") =>
            LET tk == task[t]
            IN  /\ tk.newReq # NoReq
                /\ Includes(Contents(tk.mentorID), tk.newReq)
                /\ Includes(Contents(tk.self), tk.newReq)
                /\ RecordsBetween(tk.mentorID, tk.self) = {tk.newReq}

\* the cancel / accept of the request the previous send created, by the given
\* party, in which no gateway call failed
ActsOnSent(t, action, by) ==
    /\ Done(t)
    /\ AfterSend
    /\ task[t].action = action
    /\ task[t].reqID = hist.req
    /\ task[t].self = by
    /\ ~task[t].faulted

\* C2: mentee A sends to mentor B and B then accepts the request: the accept
\* reports success, A.mentorID is B, B.menteeIDs contains A, the standalone
\* record is gone and its id is in neither user's mentorshipRequests.
C2_SendThenAccept ==
    \A t \in Tasks :
        ActsOnSent(t, "accept", hist.mentor) =>
            /\ task[t].cb = "true"
            /\ DBGetUser(hist.mentee).mentorID = hist.mentor
            /\ Includes(MenteeIDs(hist.mentor), hist.mentee)
            /\ ~DBGetReq(hist.req).exists
            /\ ~Includes(Contents(hist.mentee), hist.req)
            /\ ~Includes(Contents(hist.mentor), hist.req)

\* a mentor has accepted the request a mentee has just sent
C2_Witness ==
    \E t \in Tasks :
        ActsOnSent(t, "accept", hist.mentor) /\ task[t].cb = "true"

\* both users' mentorshipRequests are what they were before the send, and
\* the request has no standalone record
Restored ==
    /\ Contents(hist.mentor) = hist.pre[1]
    /\ Contents(hist.mentee) = hist.pre[2]
    /\ ~DBGetReq(hist.req).exists

\* C3 as stated: from any reachable state, a successful send followed by the
\* mentee's cancel of that request leaves both users' mentorshipRequests
\* with exactly the contents they had before the send, and no standalone
\* record of the request.
C3_RoundTrip ==
    \A t \in Tasks :
        (ActsOnSent(t, "cancel", hist.mentee) /\ task[t].cb = "true")
            => Restored

\* C4: in every quiescent state a standalone request record exists if and
\* only if its id is in the mentorshipRequests of both its mentor and its
\* mentee: a record is listed by both, and a listed id has a record.
C4_RecordIffListed ==
    Quiescent =>
        \A r \in ReqIds :
            /\ reqs[r].exists =>
                  /\ Includes(Contents(reqs[r].mentorID), r)
                  /\ Includes(Contents(reqs[r].menteeID), r)
            /\ (\E u \in Users : Includes(Contents(u), r)) => reqs[r].exists

\* C5: a send from A to B does not succeed while a request between A and B
\* is pending in either direction: when a send has reported success, no
\* other standalone record joins the two users.
C5_NoSendWhilePending ==
    \A t \in Tasks :
        (Done(t) /\ task[t].action = "send" /\ task[t].cb = "true") =>
            LET tk == task[t]
            IN  \A r \in ReqIds \ {tk.newReq} :
                    /\ r \notin RecordsBetween(tk.mentorID, tk.self)
                    /\ r \notin RecordsBetween(tk.self, tk.mentorID)

\* the send that follows a successful send of the same mentee to the same
\* mentor, in which no gateway call failed
SecondSend(t) ==
    /\ Done(t)
    /\ AfterSend
    /\ task[t].action = "send"
    /\ task[t].hasCb
    /\ task[t].self = hist.mentee
    /\ task[t].mentorID = hist.mentor
    /\ ~task[t].faulted

\* C6: of two consecutive sends of one mentee to one mentor, the first
\* having succeeded, the second fails with callback false and the "already
\* sent" message; it creates no record and adds no id to either list.
C6_SecondSendRejected ==
    \A t \in Tasks :
        SecondSend(t) =>
            LET tk == task[t]
            IN  /\ tk.cb = "false"
                /\ tk.msgs = <<"You have already sent a request">>
                /\ tk.newReq = NoReq
                /\ nCreated = hist.req
                /\ DBGetReq(hist.req).exists
                /\ tk.sent = <<>>
                /\ Contents(hist.mentor) = tk.pre[1]
                /\ Contents(hist.mentee) = tk.pre[2]

C6_Witness == \E t \in Tasks : SecondSend(t) /\ task[t].cb = "false"

\* a send with a callback whose target is the caller, or has no document,
\* or is no mentor, or accepts no mentees (gateway calls may have failed)
BadTargetSend(t) ==
    /\ Done(t)
    /\ task[t].action = "send"
    /\ task[t].hasCb
    /\ LET target == DBGetUser(task[t].mentorID)
       IN  \/ task[t].mentorID = task[t].self
           \/ ~target.exists
           \/ ~target.isMentor
           \/ ~target.acceptingMentees

\* what a rejected command leaves: callback false and an error message,
\* no gateway write, no data event
Rejected(t) ==
    /\ task[t].cb = "false"
    /\ task[t].msgs # <<>>
    /\ ~task[t].wrote
    /\ task[t].sent = <<>>

\* C7: a send whose target is the caller, does not exist, is no mentor or
\* accepts no mentees is rejected before any effect: callback false and an
\* error message, no record created, no mentorshipRequests list changed, no
\* mentorshipRequest data event.
C7_BadTargetRejected ==
    \A t \in Tasks :
        BadTargetSend(t) =>
            /\ Rejected(t)
            /\ task[t].newReq = NoReq
            /\ Contents(task[t].mentorID) = task[t].pre[1]
            /\ Contents(task[t].self) = task[t].pre[2]

\* a send to a mentor who accepts no mentees has been rejected
C7_Witness ==
    \E t \in Tasks :
        /\ BadTargetSend(t)
        /\ DBGetUser(task[t].mentorID).isMentor
        /\ task[t].cb = "false"

\* the caller of a finished accept, decline or cancel is not the party of
\* the (existing) request that may do it (gateway calls may have failed);
\* of a removeMentee whose gateway calls succeeded, the target was not in
\* the caller's menteeIDs
NotAllowed(t) ==
    LET tk == task[t]
    IN  /\ Done(t)
        /\ tk.hasCb
        /\ CASE tk.action \in {"accept", "decline"} ->
                    DBGetReq(tk.reqID).exists
                        /\ DBGetReq(tk.reqID).mentorID # tk.self
             [] tk.action = "cancel" ->
                    DBGetReq(tk.reqID).exists
                        /\ DBGetReq(tk.reqID).menteeID # tk.self
             [] tk.action = "removeMentee" ->
                    ~tk.faulted /\ ~Includes(tk.preMentees, tk.menteeID)
             [] OTHER -> FALSE

\* C8: a request is accepted or declined only by its mentor and cancelled
\* only by its mentee, and removeMentee succeeds only for a target in the
\* caller's menteeIDs; any other caller's attempt is rejected with callback
\* false, changes no persisted record and broadcasts nothing.
C8_OnlyTheParty ==
    \A t \in Tasks :
        LET tk == task[t]
        IN  /\ NotAllowed(t) => Rejected(t)
            /\ (Done(t) /\ tk.cb = "true"
                    /\ tk.action \in {"accept", "decline"})
                  => (tk.obj.exists /\ tk.obj.mentorID = tk.self)
            /\ (Done(t) /\ tk.cb = "true" /\ tk.action = "cancel")
                  => (tk.obj.exists /\ tk.obj.menteeID = tk.self)
            /\ (Done(t) /\ tk.cb = "true" /\ ~tk.faulted
                    /\ tk.action = "removeMentee")
                  => Includes(tk.preMentees, tk.menteeID)

\* a user who is not the mentor of an existing request has tried to accept it
C8_Witness ==
    \E t \in Tasks :
        NotAllowed(t) /\ task[t].action = "accept" /\ task[t].cb = "false"

\* C9: after a successful removeMentor by A whose mentor is B, or a
\* successful removeMentee(A) by B, A's mentorID is empty and A's id is
\* nowhere in B's menteeIDs.
C9_RelationshipGone ==
    \A t \in Tasks :
        (/\ Done(t)
         /\ task[t].action \in {"removeMentor", "removeMentee"}
         /\ task[t].cb = "true"
         /\ ~task[t].faulted)
            => /\ DBGetUser(task[t].msMentee).mentorID = NoId
               /\ ~Includes(MenteeIDs(task[t].msMentor), task[t].msMentee)

\* C10: in every quiescent state a user's id is in the menteeIDs of user m
\* if and only if the user's mentorID is m, so in those of at most one user.
C10_OneMentorPerMentee ==
    Quiescent =>
        \A a \in Users, m \in Users :
            Includes(MenteeIDs(m), a) <=> (DBGetUser(a).mentorID = m)

\* no element occurs twice in the sequence
NoDuplicates(seq) ==
    \A i \in 1..Len(seq), j \in 1..Len(seq) : seq[i] = seq[j] => i = j

\* C11: in every reachable state no user's menteeIDs holds the same user id
\* more than once, also after a mentee who already has that mentor sends a
\* further request that the mentor accepts.
C11_NoDuplicateMentee ==
    \A u \in Users : NoDuplicates(MenteeIDs(u))

\* C12: in every reachable state there is no pair of users A, B with
\* A.mentorID = B and B.mentorID = A.
C12_NoMutualMentors ==
    \A a \in Users, b \in Users :
        ~(DBGetUser(a).mentorID = b /\ DBGetUser(b).mentorID = a)

\* the ids in a user's mentorshipRequests that have no standalone record
Dangling(id) ==
    IF id \in Users
    THEN {r \in ReqIds : Includes(Contents(id), r) /\ ~DBGetReq(r).exists}
    ELSE {}

\* getFindMentorshipRequestBetweenUsers has returned and none of its
\* gateway calls failed
AfterFind(t) ==
    /\ Done(t)
    /\ task[t].cmd = "getMentorshipRequestBetweenUsers"
    /\ task[t].hasCb
    /\ ~task[t].faulted

\* C13: when FindMentorshipRequestBetweenMentorMentee has returned for a
\* pair of users, it has not returned an id without a record, and no id
\* without a record is left in the mentorshipRequests of either user of
\* the pair.
C13_SelfHeal ==
    \A t \in Tasks :
        AfterFind(t) =>
            /\ task[t].cb = "found" => DBGetReq(task[t].cbReq).exists
            /\ Dangling(task[t].mentorID) = {}
            /\ Dangling(task[t].menteeID) = {}

\* the ids that were in both lists when the call was made
InBothLists(tk) ==
    {r \in ReqIds : Includes(tk.pre[1], r) /\ Includes(tk.pre[2], r)}

\* the record is a request of this mentee to this mentor
Matches(r, mentorID, menteeID) ==
    /\ DBGetReq(r).exists
    /\ DBGetReq(r).mentorID = mentorID
    /\ DBGetReq(r).menteeID = menteeID

\* C14: FindMentorshipRequestBetweenMentorMentee(mentor, mentee) returns a
\* record exactly when some id in both users' lists has a record with that
\* mentorID and that menteeID, the record returned is such a record (never
\* one of the reverse orientation), and an id that is in only one of the
\* two lists is neither fetched nor returned.
C14_FindExact ==
    \A t \in Tasks :
        AfterFind(t) =>
            LET tk   == task[t]
                both == InBothLists(tk)
            IN  /\ tk.cb = "found" =>
                       /\ tk.cbReq \in both
                       /\ Matches(tk.cbReq, tk.mentorID, tk.menteeID)
                /\ (\E r \in both : Matches(r, tk.mentorID, tk.menteeID))
                       => tk.cb = "found"
                /\ tk.fetched \subseteq both

(***************************************************************************)
(* Properties of the session state machine (SpecSession).                  *)
(***************************************************************************)
\* a step that takes the session out of 'connecting'
LeavesConnecting == ses.state = "connecting" /\ ses'.state # "connecting"

\* C15: a session in 'connecting' leaves it once its identity lookup has
\* resolved, and it leaves it only to 'connect_error' with the connection
\* closed, to 'authed_nouser', or to 'authed_user' bound to the id of a user
\* document; it does not stay in 'connecting' with no lookup pending.
C15_LeavesConnecting ==
    /\ [][LeavesConnecting =>
            \/ ses'.state = "connect_error" /\ ~ses'.connected
            \/ ses'.state = "authed_nouser"
            \/ ses'.state = "authed_user" /\ ses'.userID \in AccountIds]_vars
    /\ (ses.state = "connecting" /\ awaits.lookup = 0)
          ~> (ses.state # "connecting")

\* C16: once a session has been in 'authed_user' it is never in
\* 'authed_nouser' afterwards, and once it has been in 'connect_error' its
\* state never changes again, also when the socket connects again.
C16_Monotone ==
    /\ ses.everUser => ses.state # "authed_nouser"
    /\ ses.everError => ses.state = "connect_error"

\* C17: when the state of a session changes, no command handler is
\* installed at the moment the new state is announced; createUser never
\* reaches a handler while the session is 'authed_user', and an
\* authenticated command reaches a handler only while it is 'authed_user'.
C17_NoHandlerLeak ==
    /\ ses.announced.from # ses.announced.to => ses.announced.installed = {}
    /\ ses.ran.event = CreateUserEvent => ses.ran.state # "authed_user"
    /\ ses.ran.event \in AuthedEvents => ses.ran.state = "authed_user"

EntriesComplete ==
    /\ awaits.questions = 0
    /\ \A a \in AccountIds : awaits.getUserData[a] = 0

\* C19: each entry of a session into 'authed_user' lists the session in
\* AllSockets under this.user.id, sends one "initialData" event, and
\* installs a handler for each of the eight authenticated events.
C19_EntryComplete ==
    ~ses.fault =>
        /\ ses.nEntered > 0 => ses.entryListed
        /\ ses.nInitial <= ses.nEntered
        /\ EntriesComplete /\ ses.nEntered > 0 =>
              /\ ses.nInitial = ses.nEntered
              /\ \A e \in AuthedEvents :
                    <<e, ses.currentSocketStateEvents[e]>> \in ses.listeners

\* C20: a handler of an authenticated command has awaited the re-read of
\* its session's own user record (_updateSelf) before it makes a check, a
\* gateway call or a callback of the command itself.
C20_RereadsSelfFirst ==
    \A t \in Tasks :
        task[t].pc \notin {"idle", "updateSelf"} => task[t].reread

\* the messages _updateSelf sends when its re-read fails (lines 1986, 1993)
RefreshFailed(tk) ==
    \/ Includes(tk.msgs, "There was a problem syncing your data.")
    \/ Includes(tk.msgs, "Your account does not exist")

\* C21: a command whose re-read of the session's own user record failed
\* has disconnected the session and stopped there: it has written nothing
\* to the gateway, has sent no data event and has not reported success.
C21_StopsAfterFailedRefresh ==
    \A t \in Tasks :
        Done(t) /\ RefreshFailed(task[t]) =>
            /\ ~sock[task[t].sock].connected
            /\ ~task[t].wrote
            /\ task[t].sent = <<>>
            /\ task[t].cb # "true"

\* C22: a command invoked without a callback is refused: it writes nothing
\* to the gateway, sends no data event, and sends the client exactly one
\* error message.
C22_NoCallbackRefused ==
    \A t \in Tasks :
        Done(t) /\ ~task[t].hasCb /\ ~task[t].faulted =>
            /\ ~task[t].wrote
            /\ task[t].sent = <<>>
            /\ Len(task[t].msgs) = 1
            /\ ~task[t].uncaught

\* the command was invoked with a callback and has not reported a result
\* of success
CommandFailed(tk) ==
    /\ tk.hasCb
    /\ tk.cb \notin {"true", "found", "undefined"}

\* C23: a command invoked with a callback that fails has answered the
\* callback with false and sent the client a message, its handler has ended
\* without an uncaught error, and its session is still connected unless its
\* self-refresh failed.
C23_FailureReported ==
    \A t \in Tasks :
        Done(t) /\ CommandFailed(task[t]) =>
            /\ task[t].cb = "false"
            /\ task[t].msgs # <<>>
            /\ ~task[t].uncaught
            /\ task[t].cmd = "mentorshipRequest" /\ ~RefreshFailed(task[t])
                  => sock[task[t].sock].connected

\* the sessions listed in AllSockets under a user id
RegisteredUnder(userID) ==
    IF userID \in DOMAIN AllSockets
    THEN {AllSockets[userID][i] : i \in 1..Len(AllSockets[userID])}
    ELSE {}

\* the data events of a command that went to one session
EventsTo(tk, s) == SelectSeq(tk.sent, LAMBDA ev : ev.to = s)

\* an accept, decline or cancel that reported success
Removed(t) ==
    /\ Done(t)
    /\ task[t].action \in {"accept", "decline", "cancel"}
    /\ task[t].cb = "true"

\* C24: a successful accept, decline or cancel of request r has sent each
\* session registered under the id of r's mentor or of r's mentee exactly
\* one data event, with r's id and the status of the action, and has sent
\* no other session any.
C24_BroadcastOnce ==
    \A t \in Tasks :
        Removed(t) =>
            \A s \in Sessions :
                IF s \in RegisteredUnder(task[t].obj.mentorID)
                         \cup RegisteredUnder(task[t].obj.menteeID)
                THEN EventsTo(task[t], s) =
                        << [to |-> s, req |-> task[t].reqID,
                            status |-> CASE task[t].action = "accept" -> "accepted"
                                         [] task[t].action = "decline" -> "declined"
                                         [] OTHER -> "cancelled"] >>
                ELSE EventsTo(task[t], s) = <<>>

\* the number of entries the session has in AllSockets
RECURSIVE EntriesUpTo(_)
EntriesUpTo(a) == IF a = 0 THEN 0 ELSE socketMap[a] + EntriesUpTo(a - 1)
Entries == EntriesUpTo(MaxAccounts)

\* C25: in every reachable state a session is listed in AllSockets at most
\* once (registering a registered session adds nothing), and a session
\* that is not registered, for one after the disconnect that removed it,
\* has no entry left.
C25_RegistryExact ==
    /\ Entries <= 1
    /\ ~ses.inAllSockets => Entries = 0

\* C26: when handleUpdateProfile has reported success to user U, U is in
\* the Mentor Availability Index exactly if U's stored document has
\* isMentor = true and acceptingMentees = true; in particular U, if in the
\* index before, is out of it after an update that sets one of the two
\* flags to false.
C26_IndexMatchesRecord ==
    LET U == sock[upd.sock].user.id
    IN  upd.pc = "done" /\ upd.cb = "true" =>
          /\ upd.inIndex <=>
                (users[U].isMentor /\ users[U].acceptingMentees)
          /\ upd.wasIn /\ "false" \in {upd.isMentor, upd.acceptingMentees}
                => ~upd.inIndex

\* C29: an operation on the Mentor Availability Index that resumes after
\* an await does not undo an addition handleUpdateProfile made meanwhile:
\* a user added while handleGetAllMentors awaited its fetches, or while the
\* rebuild awaited its query, and whose document says accepting mentor, is
\* still in the index when the operation has finished.
C29_AdditionsSurvive ==
    /\ gam.pc = "done" => gam.lost = {}
    /\ sync.pc = "done" => sync.lost = {}

\* the submitAssessment command that has just finished named an assessment
\* the caller does not own: another user's, or none that exists
NotOwner ==
    /\ asm.pc = "done"
    /\ asm.cmd = "submitAssessment"
    /\ asm.action \in {"edit", "delete", "publish", "unpublish"}
    /\ ~asm.before.exists \/ asm.before.userID # asm.self

\* C27: an edit, delete, publish or unpublish of submitAssessment changes
\* or removes the assessment document only if the caller is its owner; for
\* any other caller, and for an assessment that does not exist, the
\* document is as before and the callback has been called with false (once,
\* unless a gateway call of the command failed).
C27_OnlyOwnerChanges ==
    NotOwner =>
        /\ DBGetAsm(asm.id) = asm.before
        /\ asm.hasCb /\ ~asm.faulted => asm.cbs = <<"false">>

\* a user who does not own an existing assessment has tried to delete it
C27_Witness ==
    /\ NotOwner
    /\ asm.action = "delete"
    /\ asm.before.exists
    /\ asm.cbs = <<"false">>
    /\ assessments[asm.id].exists

\* C30: getAssessment hands the questions of an assessment to its owner,
\* and to the user who is the owner's mentorID when the assessment is
\* published; that mentor gets {published: false, id} for an unpublished
\* one; nobody else gets either, a former mentor included.
C30_OwnerOrCurrentMentor ==
    LET owner  == asm.res.userID
        mentor == asm.self # owner /\ DBGetUser(owner).mentorID = asm.self
    IN  asm.pc = "done" /\ asm.cmd = "getAssessment" =>
          /\ Includes(asm.cbs, "full") =>
                asm.self = owner \/ (mentor /\ asm.res.published)
          /\ Includes(asm.cbs, "stub") => mentor /\ ~asm.res.published

\* both handlers in flight have finished the same action with callback(true)
BothDone(action) ==
    \A t \in Slots : /\ task[t].pc = "done"
                     /\ task[t].action = action
                     /\ task[t].cb = "true"

\* the mentee has this mentorID but is not among the mentor's menteeIDs
Missing(mentorID, menteeID) ==
    /\ DBGetUser(menteeID).mentorID = mentorID
    /\ ~Includes(MenteeIDs(mentorID), menteeID)

\* the request document exists but its mentor does not list it
Unlisted(r) ==
    /\ DBGetReq(r).exists
    /\ ~Includes(Contents(DBGetReq(r).mentorID), r)

\* the requests created so far that have been deleted
Deleted == {r \in ReqIds : r <= nCreated /\ ~DBGetReq(r).exists}

\* C28: the updates of menteeIDs and of mentorshipRequests are unprotected
\* read-modify-write sequences.  When the only two accepts, or the only
\* two sends, there have been have both reported success, a mentee can
\* have the mentor as mentorID and be missing from the mentor's menteeIDs,
\* and a request document can exist that the mentor does not list; this
\* happens exactly through a handler that wrote a list which had changed
\* in the store after the handler had read it.
C28_LostUpdateIsStaleWrite ==
    /\ (/\ BothDone("accept")
        /\ task[1].reqID # task[2].reqID
        /\ Deleted = {task[t].reqID : t \in Slots}
        /\ \E t \in Slots : Missing(task[t].msMentor, task[t].msMentee))
          => (\E u \in Slots : task[u].stale)
    /\ (/\ BothDone("send")
        /\ {task[t].newReq : t \in Slots} = 1..nCreated
        /\ \E t \in Slots : Unlisted(task[t].newReq))
          => (\E u \in Slots : task[u].stale)

\* two accepts by the mentor u1 from its two sessions, for the mentees u2
\* and u3, have both reported success, and one of the mentees is missing
\* from u1's menteeIDs
C28_Witness ==
    /\ BothDone("accept")
    /\ {task[t].sock : t \in Slots} = {"s1", "s2"}
    /\ {task[t].self : t \in Slots} = {"u1"}
    /\ {task[t].msMentee : t \in Slots} = {"u2", "u3"}
    /\ \E t \in Slots : Missing("u1", task[t].msMentee)
    /\ DBGetUser("u2").mentorID = "u1" /\ DBGetUser("u3").mentorID = "u1"

\* C31: in every state there is at most one mentorshipRequest document for
\* an ordered pair (mentor, mentee), whatever sends, accepts, declines and
\* cancels have run or are running.
C31_OneRecordPerPair ==
    \A mentorID \in Users, menteeID \in Users :
        Cardinality(RecordsBetween(mentorID, menteeID)) <= 1

\* C32: removeMentorshipRequestFromUser removes only the given request ID:
\* the list it is about to write is the list it read without that ID, every
\* other ID kept in place and in order (so a list that does not hold the ID
\* is written back unchanged).
C32_RemovesOnlyThatID ==
    \A t \in Slots :
        task[t].pc = "rmuSet" =>
            task[t].uList =
                SelectSeq(Contents(task[t].uUser),
                          LAMBDA r : r # task[t].uReq)

\* C33: removeMentorship(M, A) touches only the relationship of M and A: it
\* clears A's mentorID only when that names M (or nothing), and the menteeIDs
\* list it writes for M keeps every mentee other than A, in place, also when
\* A is not in the list.
OtherMentees(list, menteeID) == SelectSeq(list, LAMBDA m : m # menteeID)

\* first half: the mentee's mentorID is cleared only when it names M
C33_ClearsOnlyOwnMentor ==
    \A t \in Slots :
        task[t].pc = "rmsSetMentee" =>
            DBGetUser(task[t].msMentee).mentorID \in {NoId, task[t].msMentor}

\* second half: the list written for M keeps every mentee other than A
C33_KeepsOtherMentees ==
    \A t \in Slots :
        task[t].pc = "rmsSetMentor" =>
            OtherMentees(task[t].msList, task[t].msMentee) =
            OtherMentees(DBGetUser(task[t].msMentor).menteeIDs,
                         task[t].msMentee)

C33_OnlyThatRelationship == C33_ClearsOnlyOwnMentor /\ C33_KeepsOtherMentees

\* C34: accept is all-or-nothing.  An accept that reports failure (callback
\* false) has written nothing to the gateway (the request record, both
\* users' lists, the mentee's mentorID and the mentor's menteeIDs are what
\* they were) and has broadcast no event.
C34_AcceptAllOrNothing ==
    \A t \in Tasks :
        Done(t) /\ task[t].action = "accept" /\ task[t].cb = "false" =>
            /\ ~task[t].wrote
            /\ task[t].sent = <<>>

\* C35: at most one user document is ever created for an OAuthSubID, also
\* when createUser runs a second time before the first run's entry into
\* 'authed_user' has removed the createUser handler.
C35_OneUserPerSubject == Len(accounts) <= 1

\* C36: a session has at most one listener per command event, so a command
\* that reaches the session runs its handler once; and every listener that
\* is installed is the one currentSocketStateEvents holds for its event, so
\* the next _cleanupSocketEvents removes it.
C36_OneHandlerPerCommand ==
    /\ \A e \in StateEvents : ListenerCount(ses, e) <= 1
    /\ ses.ran.event # "none" => ses.ran.times = 1
    /\ \A l \in ses.listeners : ses.currentSocketStateEvents[l[1]] = l[2]

\* the session is listed in AllSockets
Registered == socketMap # [a \in AccountIds |-> 0]

\* C37: a session that is listed in AllSockets is connected and is listed
\* under this.user.id only; a session whose socket has disconnected is
\* listed under no user id, also when the disconnect came while its
\* identity lookup or its entry into 'authed_user' was awaiting the gateway.
C37_RegisteredIsConnected ==
    /\ Registered => ses.connected
    /\ \A a \in AccountIds : socketMap[a] > 0 => ses.userID = a

\* C38: when the "state" event 'authed_user' is emitted the eight
\* authenticated handlers are installed, so from then on, while the session
\* is connected and in 'authed_user', every authenticated command has a
\* listener (a command with none is dropped and its callback never called).
C38_HandlersBeforeAnnounce ==
    /\ ses.announced.to = "authed_user" =>
          AuthedEvents \subseteq ses.announced.installed
    /\ ses.connected /\ ses.state = "authed_user" =>
          AuthedEvents \subseteq Listening(ses)

\* C39: a command invocation calls its callback at most once, so with one
\* result, for every action of submitAssessment and for getAssessment.
C39_CallbackAtMostOnce == Len(asm.cbs) <= 1

\* C40: in every quiescent state reached without a failing gateway call,
\* every id in a user's stored assessments list is an existing assessment
\* of that user, and every existing assessment is in its owner's list.
C40_ListMatchesRecords ==
    (Quiescent /\ asm.pc = "idle" /\ nFaults = 0) =>
        /\ \A u \in Users :
              \A i \in 1..Len(users[u].assessments) :
                  /\ DBGetAsm(users[u].assessments[i]).exists
                  /\ DBGetAsm(users[u].assessments[i]).userID = u
        /\ \A a \in AsmIds :
              assessments[a].exists =>
                  /\ assessments[a].userID \in Users
                  /\ Includes(users[assessments[a].userID].assessments, a)

====
